---- MODULE Spec2Model ----
(***************************************************************************)
(* A model of holow-mcp: the JSON-RPC dispatcher with its idempotency      *)
(* ledger (internal/server/server.go, internal/database/db.go) and the     *)
(* per-tool circuit breakers (package circuit), the catalog of SQL-backed   *)
(* tools with its hot reload (package tools), the steps of a tool, the     *)
(* shutdown sequence and the retry queue.                                  *)
(*                                                                         *)
(* Time is counted in whole seconds.  A fingerprint (SHA-256 of method and *)
(* raw params) is modelled by the pair <<method, params>>, and a result    *)
(* hash by the result value: both are injective, as the hash is taken to   *)
(* be.  Storage calls are taken to succeed unless a constraint of the      *)
(* schema rejects them.                                                    *)
(***************************************************************************)
EXTENDS Integers, Sequences, FiniteSets, TLC

VARIABLES
    now,                \* wall clock, seconds
    breakers,           \* circuit.Manager.breakers: name -> Breaker
    circuit_breakers,   \* table circuit_breakers of the execution shard
    processed_log,      \* table processed_log of the execution shard
    tool_results,       \* table tool_results of the output shard
    pc,                 \* position of each handler goroutine
    req,                \* the request each handler goroutine works on
    stdout,             \* response lines written so far
    requestsProcessed,  \* Server.requestsProcessed
    requestsFailed,     \* Server.requestsFailed
    securityEvents,     \* circuit_open security events recorded
    linesRead,          \* input lines taken by the read loop
    callsRead,          \* history: tools/call lines read so far, per tool
    argsUsed,           \* history: distinct arguments read so far, per tool
    execCount,          \* history: executeTool runs per fingerprint
    hoAdmitted,         \* history: calls admitted by CanExecute calls that found half_open
    streak,             \* history: failures recorded in closed with no success between
    lastOp,             \* history: the last breaker operation that returned
    seen,               \* history: the breaker state changes made so far
    tool_definitions,   \* table tool_definitions of the tool shard: name -> row
    tool_implementations, \* table tool_implementations: name -> steps in step_order
    tools_dirty,        \* hot_reload_flag.tools_dirty
    catalog,            \* tools.Manager.tools: name -> Tool
    pollPc,             \* position of the pollLoop goroutine of tools.Manager
    newTools,           \* reload: the rows still to load and the map being built
    createPc,           \* position of each createTool call in progress
    edits,              \* history: statements committed on tool_definitions
    tableViews,         \* history: the enabled definitions after each commit
    listed,             \* history: what the last Manager.List returned, and when
    allowed_attach_paths, \* table allowed_attach_paths: its rows
    attached,           \* history: the database files attached by tool steps
    shutdownChan,       \* Server.shutdownChan: open or closed
    heartbeat,          \* heartbeat.status of the row of this server
    shutPc,             \* position of Server.Shutdown
    hbPc,               \* position of the heartbeatLoop goroutine
    readPc,             \* position of readLoop, and so of Start and of main
    dbLog,              \* history: what Shutdown did to the shards, in order
    retry_queue,        \* table retry_queue of the execution shard
    dead_letter_queue,  \* table dead_letter_queue of the output shard
    sweep,              \* ProcessRetryQueue: the jobs selected and still to run
    retryLog,           \* history: the executions made by ProcessRetryQueue
    stream,             \* the bytes written to os.Stdout, by write(2) call
    writeLock,          \* the write lock of os.Stdout: its holder, or 0
    sending,            \* position of each handler goroutine inside send
    boot,               \* NewServer: its position and what recovery met
    scanBuf,            \* the buffer of the bufio.Scanner of readLoop, by slot
    scanned,            \* lines returned by scanner.Scan so far
    handed,             \* the slices given to handlers that have not parsed yet
    parsedAs,           \* history: the line each handler found in its slice
    validated,          \* history: the last ValidateAttachPath call and its answer
    sigPc,              \* position of the goroutine Start makes for SIGTERM and SIGINT
    pillPc,             \* position of poisonPillLoop
    panicked,           \* the goroutine whose panic has ended the process, if any
    toolRun,            \* one executeTool call: the steps left, those run, the last result
    subst,              \* history: the last substituteParams call and what it returned
    migr,               \* the migrations of one shard: user_version, runs of each file
    latencies,          \* Collector.latencies
    beat                \* the counters of the heartbeat row, and the writers under way

vars == <<now, breakers, circuit_breakers, processed_log, tool_results, pc, req,
          stdout, requestsProcessed, requestsFailed, securityEvents, linesRead,
          callsRead, argsUsed, execCount, hoAdmitted, streak, lastOp, seen,
          tool_definitions, tool_implementations, tools_dirty, catalog, pollPc,
          newTools, createPc, edits, tableViews, listed, allowed_attach_paths,
          attached, shutdownChan, heartbeat, shutPc, hbPc, readPc, dbLog,
          retry_queue, dead_letter_queue, sweep, retryLog, stream, writeLock, sending,
          boot, scanBuf, scanned, handed, parsedAs, validated,
          sigPc, pillPc, panicked, toolRun, subst, migr, latencies, beat>>

serverVars == <<processed_log, tool_results, pc, req, stdout, requestsProcessed,
                requestsFailed, securityEvents, linesRead, callsRead, argsUsed, execCount>>

breakerVars == <<now, breakers, circuit_breakers, hoAdmitted, streak, lastOp, seen>>

registryVars == <<tool_definitions, tool_implementations, tools_dirty, catalog, pollPc,
                  newTools, createPc, edits, tableViews, listed>>

\* the variables of the subsystems that the dispatcher and the breakers leave alone
attachVars == <<allowed_attach_paths, attached>>

shutdownVars == <<shutdownChan, heartbeat, shutPc, hbPc, readPc, dbLog>>

retryVars == <<retry_queue, dead_letter_queue, sweep, retryLog>>

sendVars == <<stream, writeLock, sending>>

bootVars == <<boot>>

scanVars == <<scanBuf, scanned, handed, parsedAs>>

validateVars == <<validated>>

\* the variables of the parts modelled on their own
pillVars == <<sigPc, pillPc, panicked>>

lateVars == <<toolRun, subst, migr, latencies, beat>>

moreVars == <<sendVars, bootVars, scanVars, validateVars, pillVars, lateVars>>

restVars == <<shutdownVars, retryVars, moreVars>>

otherVars == <<registryVars, attachVars, restVars>>

\* the variables that the tool registry leaves alone
notRegistryVars == <<serverVars, breakerVars, attachVars, restVars>>

----------------------------------------------------------------------------
(* Bounds of the model *)

\* the clock stops advancing here
MaxNow == 122
\* handler goroutines in flight at once
MaxInFlight == 2
\* input lines read in one run of Spec
MaxRequests == 2
\* calls of bad_tool read in one run of SpecCircuit
MaxCalls == 6
\* the clock stops advancing here in SpecCircuit
MaxNowCircuit == 61
\* calls of ok_tool read in one run of SpecCircuit
MaxOther == 1
\* statements committed on tool_definitions in one run of SpecRegistry
MaxEdits == 2
\* seconds of wall clock in SpecRetry
MaxNowRetry == 16
\* retry jobs added in SpecRetry
MaxJobs == 1
\* write(2) calls a response line may take
MaxParts == 2
\* response lines handed to send in SpecSend
MaxSends == 3
\* lines the buffer of the scanner holds before it is used again from its start
MaxSlots == 2
\* lines returned by scanner.Scan in SpecScan
MaxScans == 5
\* the largest step_order of a tool_implementations row in SpecSteps
MaxOrder == 3
\* migration files of the shard in SpecMigrate
MaxFiles == 3
\* server starts in SpecMigrate
MaxStarts == 3
\* RecordLatency calls between two collections in SpecLatency
MaxRecords == 10002
\* requests counted in SpecBeat
MaxCounted == 2
\* ticks of the heartbeat ticker in SpecBeat
MaxTicks == 2
\* RecordLatency calls taken in one step by RecordLatencies
Burst == 2500

\* amounts by which the clock advances between two steps
TickSteps == {60, 61}

----------------------------------------------------------------------------
(* Package circuit *)

StateClosed == "closed"
StateOpen == "open"
StateHalfOpen == "half_open"

\* defaults of a breaker created by Manager.Get
DefaultFailureThreshold == 5
DefaultSuccessThreshold == 3
DefaultTimeoutSeconds == 60
DefaultHalfOpenMaxCalls == 3

\* names of the SQL-backed tools of the catalog; a breaker is named after its tool
Tools == {"ok_tool", "bad_tool"}

NoBreaker == [state |-> "none"]
NoRow == [state |-> "none"]

\* the breaker Manager.Get creates for an unknown name
NewBreaker(t) ==
    [state |-> StateClosed, failureCount |-> 0, successCount |-> 0,
     failureThreshold |-> DefaultFailureThreshold,
     successThreshold |-> DefaultSuccessThreshold,
     timeoutSeconds |-> DefaultTimeoutSeconds,
     lastStateChange |-> t,
     halfOpenMaxCalls |-> DefaultHalfOpenMaxCalls, halfOpenCalls |-> 0]

\* the row Manager.Get inserts with it
NewRow(t) ==
    [state |-> StateClosed, failure_count |-> 0, success_count |-> 0,
     failure_threshold |-> DefaultFailureThreshold,
     success_threshold |-> DefaultSuccessThreshold,
     timeout_seconds |-> DefaultTimeoutSeconds,
     last_state_change_at |-> t,
     half_open_max_calls |-> DefaultHalfOpenMaxCalls]

\* Manager.LoadAll: one in-memory breaker per row; halfOpenCalls is not stored
LoadAll(rows) ==
    [n \in DOMAIN rows |->
        IF rows[n] = NoRow THEN NoBreaker
        ELSE [state |-> rows[n].state,
              failureCount |-> rows[n].failure_count,
              successCount |-> rows[n].success_count,
              failureThreshold |-> rows[n].failure_threshold,
              successThreshold |-> rows[n].success_threshold,
              timeoutSeconds |-> rows[n].timeout_seconds,
              lastStateChange |-> rows[n].last_state_change_at,
              halfOpenMaxCalls |-> rows[n].half_open_max_calls,
              halfOpenCalls |-> 0]]

\* CanExecute, open: time.Since(lastStateChange) > timeoutSeconds
TimeoutElapsed(b, t) == t - b.lastStateChange > b.timeoutSeconds

\* CanExecute, half-open: halfOpenCalls >= halfOpenMaxCalls rejects
HalfOpenFullOffByOne(b) == b.halfOpenCalls > b.halfOpenMaxCalls
HalfOpenFull(b) == b.halfOpenCalls >= b.halfOpenMaxCalls

\* the boolean CanExecute returns
CanExecuteAdmits(b, t) ==
    CASE b.state = StateClosed -> TRUE
      [] b.state = StateOpen -> TimeoutElapsed(b, t)
      [] b.state = StateHalfOpen -> ~HalfOpenFull(b)
      [] OTHER -> FALSE

\* the breaker CanExecute leaves behind
CanExecuteBreaker(b, t) ==
    CASE b.state = StateOpen /\ TimeoutElapsed(b, t) ->
            [b EXCEPT !.state = StateHalfOpen, !.successCount = 0,
                      !.halfOpenCalls = 0, !.lastStateChange = t]
      [] b.state = StateHalfOpen /\ ~HalfOpenFull(b) ->
            [b EXCEPT !.halfOpenCalls = @ + 1]
      [] OTHER -> b

\* RecordSuccess that also closes an open breaker
RecordSuccessFromOpen(b, t) ==
    CASE b.state = StateClosed -> [b EXCEPT !.failureCount = 0]
      [] b.state \in {StateHalfOpen, StateOpen} ->
            IF b.successCount + 1 >= b.successThreshold
            THEN [b EXCEPT !.state = StateClosed, !.failureCount = 0,
                           !.successCount = 0, !.lastStateChange = t]
            ELSE [b EXCEPT !.successCount = @ + 1]
      [] OTHER -> b

\* RecordSuccess that leaves the failure count of a closed breaker alone
RecordSuccessKeepsFailures(b, t) ==
    CASE b.state = StateHalfOpen ->
            IF b.successCount + 1 >= b.successThreshold
            THEN [b EXCEPT !.state = StateClosed, !.failureCount = 0,
                           !.successCount = 0, !.lastStateChange = t]
            ELSE [b EXCEPT !.successCount = @ + 1]
      [] OTHER -> b

\* RecordSuccess that closes one success late
RecordSuccessStrict(b, t) ==
    CASE b.state = StateClosed -> [b EXCEPT !.failureCount = 0]
      [] b.state = StateHalfOpen ->
            IF b.successCount + 1 > b.successThreshold
            THEN [b EXCEPT !.state = StateClosed, !.failureCount = 0,
                           !.successCount = 0, !.lastStateChange = t]
            ELSE [b EXCEPT !.successCount = @ + 1]
      [] OTHER -> b

\* the breaker RecordSuccess leaves behind
RecordSuccessBreaker(b, t) ==
    CASE b.state = StateClosed -> [b EXCEPT !.failureCount = 0]
      [] b.state = StateHalfOpen ->
            IF b.successCount + 1 >= b.successThreshold
            THEN [b EXCEPT !.state = StateClosed, !.failureCount = 0,
                           !.successCount = 0, !.lastStateChange = t]
            ELSE [b EXCEPT !.successCount = @ + 1]
      [] OTHER -> b

\* RecordFailure that keeps the successes counted when it reopens the breaker
RecordFailureKeepsSuccesses(b, t) ==
    CASE b.state = StateClosed ->
            IF b.failureCount + 1 >= b.failureThreshold
            THEN [b EXCEPT !.failureCount = @ + 1, !.state = StateOpen,
                           !.lastStateChange = t]
            ELSE [b EXCEPT !.failureCount = @ + 1]
      [] b.state = StateHalfOpen ->
            [b EXCEPT !.state = StateOpen, !.lastStateChange = t]
      [] OTHER -> b

\* RecordFailure that opens one failure late
RecordFailureStrict(b, t) ==
    CASE b.state = StateClosed ->
            IF b.failureCount + 1 > b.failureThreshold
            THEN [b EXCEPT !.failureCount = @ + 1, !.state = StateOpen,
                           !.lastStateChange = t]
            ELSE [b EXCEPT !.failureCount = @ + 1]
      [] b.state = StateHalfOpen ->
            [b EXCEPT !.state = StateOpen, !.successCount = 0,
                      !.lastStateChange = t]
      [] OTHER -> b

\* the breaker RecordFailure leaves behind
RecordFailureBreaker(b, t) ==
    CASE b.state = StateClosed ->
            IF b.failureCount + 1 >= b.failureThreshold
            THEN [b EXCEPT !.failureCount = @ + 1, !.state = StateOpen,
                           !.lastStateChange = t]
            ELSE [b EXCEPT !.failureCount = @ + 1]
      [] b.state = StateHalfOpen ->
            [b EXCEPT !.state = StateOpen, !.successCount = 0,
                      !.lastStateChange = t]
      [] OTHER -> b

\* the breaker Reset leaves behind
ResetBreaker(b, t) ==
    [b EXCEPT !.state = StateClosed, !.failureCount = 0, !.successCount = 0,
              !.lastStateChange = t]

\* the UPDATE circuit_breakers ... WHERE name = ? of RecordSuccess, RecordFailure, Reset
PersistBreaker(rows, n, b) ==
    IF rows[n] = NoRow THEN rows
    ELSE [rows EXCEPT ![n] = [@ EXCEPT !.state = b.state,
                                       !.failure_count = b.failureCount,
                                       !.success_count = b.successCount,
                                       !.last_state_change_at = b.lastStateChange]]

\* history kept with a breaker operation op that takes breaker b to nb:
\* the failures recorded in closed since the breaker last closed or recorded
\* a success (Reset, which clears the counters, restarts the history too)
StreakAfter(op, b, nb, s) ==
    IF op = "RecordFailure" /\ b.state = StateClosed THEN s + 1
    ELSE IF op = "RecordSuccess" /\ b.state = StateClosed THEN 0
    ELSE IF op = "Reset" THEN 0
    ELSE IF b.state # StateClosed /\ nb.state = StateClosed THEN 0
    ELSE s

\* the calls admitted by the CanExecute calls that found the breaker half-open,
\* since it last became half-open
AdmittedAfter(b, admitted, a) ==
    IF b.state = StateOpen THEN 0
    ELSE IF b.state = StateHalfOpen /\ admitted THEN a + 1
    ELSE a

\* the record of a breaker operation that has returned
OpRecord(op, n, b, admitted, t) ==
    [op |-> op, name |-> n, admitted |-> admitted, before |-> b, at |-> t]

NoOp == OpRecord("none", "none", NoBreaker, FALSE, 0)

\* the state changes made so far, after one that takes breaker b to nb
SeenAfter(b, nb, c) ==
    IF b.state = nb.state THEN c ELSE c \cup {<<b.state, nb.state>>}

\* Breaker.CanExecute on breaker n, the whole call under b.mu
CanExecute(n) ==
    /\ breakers[n] # NoBreaker
    /\ LET b == breakers[n]
           ok == CanExecuteAdmits(b, now)
           nb == CanExecuteBreaker(b, now)
       IN /\ breakers' = [breakers EXCEPT ![n] = nb]
          /\ hoAdmitted' = [hoAdmitted EXCEPT ![n] = AdmittedAfter(b, ok, @)]
          /\ streak' = [streak EXCEPT ![n] = StreakAfter("CanExecute", b, nb, @)]
          /\ lastOp' = OpRecord("CanExecute", n, b, ok, now)
          /\ seen' = SeenAfter(b, nb, seen)
    /\ UNCHANGED <<now, circuit_breakers, serverVars, otherVars>>

\* Breaker.RecordSuccess on breaker n, with its UPDATE
RecordSuccess(n) ==
    /\ breakers[n] # NoBreaker
    /\ LET b == breakers[n]
           nb == RecordSuccessBreaker(b, now)
       IN /\ breakers' = [breakers EXCEPT ![n] = nb]
          /\ circuit_breakers' = PersistBreaker(circuit_breakers, n, nb)
          /\ streak' = [streak EXCEPT ![n] = StreakAfter("RecordSuccess", b, nb, @)]
          /\ lastOp' = OpRecord("RecordSuccess", n, b, TRUE, now)
          /\ seen' = SeenAfter(b, nb, seen)
    /\ UNCHANGED <<now, hoAdmitted, serverVars, otherVars>>

\* Breaker.RecordFailure on breaker n, with its UPDATE
RecordFailure(n) ==
    /\ breakers[n] # NoBreaker
    /\ LET b == breakers[n]
           nb == RecordFailureBreaker(b, now)
       IN /\ breakers' = [breakers EXCEPT ![n] = nb]
          /\ circuit_breakers' = PersistBreaker(circuit_breakers, n, nb)
          /\ streak' = [streak EXCEPT ![n] = StreakAfter("RecordFailure", b, nb, @)]
          /\ lastOp' = OpRecord("RecordFailure", n, b, TRUE, now)
          /\ seen' = SeenAfter(b, nb, seen)
    /\ UNCHANGED <<now, hoAdmitted, serverVars, otherVars>>

\* Breaker.Reset on breaker n, with its UPDATE
Reset(n) ==
    /\ breakers[n] # NoBreaker
    /\ LET b == breakers[n]
           nb == ResetBreaker(b, now)
       IN /\ breakers' = [breakers EXCEPT ![n] = nb]
          /\ circuit_breakers' = PersistBreaker(circuit_breakers, n, nb)
          /\ streak' = [streak EXCEPT ![n] = StreakAfter("Reset", b, nb, @)]
          /\ lastOp' = OpRecord("Reset", n, b, TRUE, now)
          /\ seen' = SeenAfter(b, nb, seen)
    /\ UNCHANGED <<now, hoAdmitted, serverVars, otherVars>>

\* the clock advances, up to a horizon
Advance(horizon) ==
    /\ \E d \in TickSteps:
        /\ now + d <= horizon
        /\ now' = now + d
    /\ UNCHANGED <<breakers, circuit_breakers, serverVars, hoAdmitted, streak, lastOp, seen, otherVars>>

----------------------------------------------------------------------------
(* Package tools: the catalog of SQL-backed tools and its hot reload *)

NoDef == [absent |-> TRUE]
NoTool == [absent |-> TRUE]

\* templates of sql steps: a query with one row and one column, a query
\* that fails on every run
SelectOne == "SELECT 1 AS v"
SelectMissing == "SELECT v FROM missing_table"

\* a tool_implementations row of step_type sql
SqlStep(template) == [step_type |-> "sql", sql_template |-> template]

\* contents the description column takes
Descriptions == {1, 2}

\* a tool_definitions row as an INSERT that names no retry_policy, max_retries
\* or enabled leaves it
DefinitionRow(d) ==
    [description |-> d, enabled |-> 1, retry_policy |-> "exponential", max_retries |-> 3]

\* reload: the Tool scanned from a definitions row, with the steps loadSteps returns
LoadedTool(row, steps) ==
    [description |-> row.description, retryPolicy |-> row.retry_policy,
     maxRetries |-> row.max_retries, steps |-> steps]

\* reload's query: the rows WHERE enabled = 1
EnabledNames(defs) == {n \in Tools: defs[n] # NoDef /\ defs[n].enabled = 1}

\* a whole reload run against tables that do not change meanwhile
Reloaded(defs, impls) ==
    [n \in Tools |-> IF n \in EnabledNames(defs) THEN LoadedTool(defs[n], impls[n])
                     ELSE NoTool]

\* what tools/list shows of the SQL-backed tools: ToMCPSchema of each
TableView(defs) == {<<n, defs[n].description>>: n \in EnabledNames(defs)}
ListView(cat) == {<<n, cat[n].description>>: n \in {m \in Tools: cat[m] # NoTool}}

NoBuild == [todo |-> {}, defs |-> [n \in Tools |-> NoDef], tools |-> [n \in Tools |-> NoTool]]
NoList == [view |-> {}, during |-> FALSE, taken |-> FALSE]

\* reload that fills m.tools while it scans
PublishEarly(cat, built, complete) == built

\* reload builds the local map newTools and assigns it to m.tools, under
\* m.mu, when every row has been scanned
Publish(cat, built, complete) == IF complete THEN built ELSE cat

\* triggers tool_inserted, tool_updated, tool_deleted: a statement on
\* tool_definitions sets the flag in its own transaction
Commit(defs) ==
    /\ tool_definitions' = defs
    /\ tools_dirty' = 1
    /\ edits' = edits + 1
    /\ tableViews' = tableViews \cup {TableView(defs)}

\* INSERT INTO tool_definitions by a client of the tool shard
InsertTool(n, d) ==
    /\ edits < MaxEdits
    /\ tool_definitions[n] = NoDef
    /\ Commit([tool_definitions EXCEPT ![n] = DefinitionRow(d)])
    /\ UNCHANGED <<tool_implementations, catalog, pollPc, newTools, createPc, listed,
                   notRegistryVars>>

\* UPDATE tool_definitions SET description = d, enabled = e WHERE name = n
UpdateTool(n, d, e) ==
    /\ edits < MaxEdits
    /\ tool_definitions[n] # NoDef
    /\ <<d, e>> # <<tool_definitions[n].description, tool_definitions[n].enabled>>
    /\ Commit([tool_definitions EXCEPT ![n] = [@ EXCEPT !.description = d, !.enabled = e]])
    /\ UNCHANGED <<tool_implementations, catalog, pollPc, newTools, createPc, listed,
                   notRegistryVars>>

\* DELETE FROM tool_definitions WHERE name = n; the steps go with the row
\* (ON DELETE CASCADE)
DeleteTool(n) ==
    /\ edits < MaxEdits
    /\ tool_definitions[n] # NoDef
    /\ Commit([tool_definitions EXCEPT ![n] = NoDef])
    /\ tool_implementations' = [tool_implementations EXCEPT ![n] = <<>>]
    /\ UNCHANGED <<catalog, pollPc, newTools, createPc, listed, notRegistryVars>>

\* createTool of the brainloop meta-tool, first statement: the definition
CreateDefinition(n) ==
    /\ edits < MaxEdits
    /\ createPc[n] = "idle"
    /\ IF tool_definitions[n] = NoDef
       THEN /\ Commit([tool_definitions EXCEPT ![n] = DefinitionRow(1)])
            /\ createPc' = [createPc EXCEPT ![n] = "definition"]
       ELSE /\ createPc' = [createPc EXCEPT ![n] = "failed"]
            /\ UNCHANGED <<tool_definitions, tools_dirty, edits, tableViews>>
    /\ UNCHANGED <<tool_implementations, catalog, pollPc, newTools, listed, notRegistryVars>>

\* createTool, second statement: the first step, then the success result.
\* The insert fails when the definition is gone (foreign key) or the tool
\* has a step 1 already (UNIQUE(tool_name, step_order)).
CreateStep(n) ==
    /\ createPc[n] = "definition"
    /\ IF tool_definitions[n] # NoDef /\ tool_implementations[n] = <<>>
       THEN /\ tool_implementations' =
                  [tool_implementations EXCEPT ![n] = <<SqlStep(SelectOne)>>]
            /\ createPc' = [createPc EXCEPT ![n] = "created"]
       ELSE /\ createPc' = [createPc EXCEPT ![n] = "failed"]
            /\ UNCHANGED tool_implementations
    /\ UNCHANGED <<tool_definitions, tools_dirty, edits, tableViews, catalog, pollPc,
                   newTools, listed, notRegistryVars>>

\* pollLoop, a tick: the flag is read and found set
PollFlag ==
    /\ pollPc = "select"
    /\ tools_dirty = 1
    /\ pollPc' = "query"
    /\ UNCHANGED <<tool_definitions, tool_implementations, tools_dirty, catalog, newTools,
                   createPc, edits, tableViews, listed, notRegistryVars>>

\* reload: the SELECT on tool_definitions
ReloadQuery ==
    /\ pollPc = "query"
    /\ newTools' = [todo |-> EnabledNames(tool_definitions), defs |-> tool_definitions,
                    tools |-> [n \in Tools |-> NoTool]]
    /\ catalog' = Publish(catalog, newTools'.tools, FALSE)
    /\ pollPc' = "steps"
    /\ UNCHANGED <<tool_definitions, tool_implementations, tools_dirty, createPc, edits,
                   tableViews, listed, notRegistryVars>>

\* reload: the next row is scanned and loadSteps queries its steps
ReloadLoadSteps(n) ==
    /\ pollPc = "steps"
    /\ n \in newTools.todo
    /\ newTools' = [newTools EXCEPT
                      !.todo = @ \ {n},
                      !.tools[n] = LoadedTool(newTools.defs[n], tool_implementations[n])]
    /\ catalog' = Publish(catalog, newTools'.tools, FALSE)
    /\ UNCHANGED <<tool_definitions, tool_implementations, tools_dirty, pollPc, createPc,
                   edits, tableViews, listed, notRegistryVars>>

\* reload: the swap of m.tools
ReloadSwap ==
    /\ pollPc = "steps"
    /\ newTools.todo = {}
    /\ catalog' = Publish(catalog, newTools.tools, TRUE)
    /\ newTools' = NoBuild
    /\ pollPc' = "clear"
    /\ UNCHANGED <<tool_definitions, tool_implementations, tools_dirty, createPc, edits,
                   tableViews, listed, notRegistryVars>>

\* pollLoop: UPDATE hot_reload_flag SET tools_dirty = 0 after the reload
PollClear ==
    /\ pollPc = "clear"
    /\ tools_dirty' = 0
    /\ pollPc' = "select"
    /\ UNCHANGED <<tool_definitions, tool_implementations, catalog, newTools, createPc,
                   edits, tableViews, listed, notRegistryVars>>

\* Manager.List, as handleToolsList calls it, under m.mu
List ==
    /\ listed' = [view |-> ListView(catalog), during |-> pollPc \in {"steps"},
                  taken |-> TRUE]
    /\ listed' # listed
    /\ UNCHANGED <<tool_definitions, tool_implementations, tools_dirty, catalog, pollPc,
                   newTools, createPc, edits, tableViews, notRegistryVars>>

\* the tool shard after Manager.Start: the tables hold defs and impls, the
\* initial reload has run
RegistryInit(defs, impls) ==
    /\ tool_definitions = defs
    /\ tool_implementations = impls
    /\ tools_dirty = 0
    /\ catalog = Reloaded(defs, impls)
    /\ pollPc = "select"
    /\ newTools = NoBuild
    /\ createPc = [n \in Tools |-> "idle"]
    /\ edits = 0
    /\ tableViews = {TableView(defs)}
    /\ listed = NoList

\* the tables of a server whose tools are ok_tool and bad_tool
StockDefs == [n \in Tools |-> DefinitionRow(1)]
StockImpls ==
    [n \in Tools |-> IF n = "ok_tool" THEN <<SqlStep(SelectOne)>>
                     ELSE <<SqlStep(SelectMissing)>>]

\* the subsystems around the dispatcher, at rest
\* the whitelist as the operator filled it; nothing attached yet
\* a row of allowed_attach_paths, worker_name being its primary key
AttachRow(worker, path, allowed) ==
    [worker_name |-> worker, db_path |-> path, allowed |-> allowed]

\* the paths some row of the table allows
AllowedPaths == {row.db_path: row \in {x \in allowed_attach_paths: x.allowed = 1}}

AttachInit(rows) ==
    /\ allowed_attach_paths = rows
    /\ attached = {}

\* Start has written the heartbeat and started its goroutines; readLoop
\* waits for a line
ShutdownInit ==
    /\ shutdownChan = "open"
    /\ heartbeat = "running"
    /\ shutPc = "idle"
    /\ hbPc = "wait"
    /\ readPc = "scan"
    /\ dbLog = <<>>

\* the retry queue holds the rows of queue, no sweep is running
RetryInit(queue) ==
    /\ retry_queue = queue
    /\ dead_letter_queue = {}
    /\ sweep = {}
    /\ retryLog = <<>>

\* nothing written to stdout yet, no handler inside send
SendInit ==
    /\ stream = <<>>
    /\ writeLock = 0
    /\ sending = [h \in 1..MaxInFlight |-> [at |-> "idle", line |-> 0, part |-> 0]]

\* the six shards of database.Manager
Shards == {"input", "lifecycle-tools", "lifecycle-execution", "lifecycle-core",
           "output", "metadata"}

\* NewServer at position at, RecoverAndMigrate having the shards of todo left
BootAt(at, todo) ==
    boot = [at |-> at, todo |-> todo, checkpointFailed |-> {}, migrationFailed |-> {}]

\* NewServer has returned the server and nothing failed on the way
BootInit == BootAt("created", {})

\* readLoop has made its scanner and read nothing
ScanInit ==
    /\ scanBuf = [k \in 1..MaxSlots |-> 0]
    /\ scanned = 0
    /\ handed = {}
    /\ parsedAs = {}

NoValidation == [path |-> "", ok |-> FALSE, allowing |-> FALSE, called |-> FALSE]

ValidateInit == validated = NoValidation

\* nobody has panicked
NoPanic == ""

\* Start has made the signal goroutine and poisonPillLoop; both wait
PillInit ==
    /\ sigPc = "wait"
    /\ pillPc = "wait"
    /\ panicked = NoPanic

\* executeTool has not been called
NoRun == [pc |-> "idle", rows |-> <<>>, steps |-> <<>>, executed |-> <<>>,
          last |-> [order |-> 0, value |-> ""], ok |-> TRUE]

RunInit == toolRun = NoRun

\* substituteParams has not been called
NoSubst == [called |-> FALSE, template |-> <<>>, args |-> <<>>, order |-> <<>>,
            result |-> <<>>]

SubstInit == subst = NoSubst

\* a shard before the first start: user_version 0, no migration file run
NoMigration == [pc |-> "down", user_version |-> 0, files |-> 0, currentVersion |-> 0,
                todo |-> <<>>, runs |-> <<>>, starts |-> 0, failed |-> FALSE,
                applied |-> {}, again |-> {}]

MigrInit == migr = NoMigration

\* NewCollector: latencies is empty; nothing recorded since the last collection
LatencyInit == latencies = [buf |-> <<>>, recorded |-> 0]

\* an UpdateHeartbeat call that is not under way
NoBeat == [pc |-> "idle", processed |-> 0, failed |-> 0]

\* before Start: no heartbeat row, counters at 0
BeatInit ==
    beat = [started |-> FALSE, processed |-> 0, failed |-> 0,
            row |-> [requests_processed |-> 0, requests_failed |-> 0, status |-> "none"],
            loop |-> NoBeat, shut |-> NoBeat, ticks |-> 0]

LateInit == RunInit /\ SubstInit /\ MigrInit /\ LatencyInit /\ BeatInit

MoreInit == SendInit /\ BootInit /\ ScanInit /\ ValidateInit /\ PillInit /\ LateInit

RestInit == AttachInit({}) /\ ShutdownInit /\ RetryInit({}) /\ MoreInit

OtherInit == RegistryInit(StockDefs, StockImpls) /\ RestInit

----------------------------------------------------------------------------
(* The dispatcher: requests, ledger and result store *)

\* a skip list that lacks tools/list
SkipIdempotenceShort == {"initialize", "resources/list", "prompts/list", "ping"}

\* methods handleRequest leaves out of the idempotency check
SkipIdempotence == {"initialize", "tools/list", "resources/list", "prompts/list", "ping"}

\* methods the switch of handleRequest routes to a handler
Routed == {"initialize", "tools/list", "tools/call", "resources/list", "prompts/list"}

\* a request line: tool and args are the name and arguments of a tools/call
Request(m, tool, args) == [method |-> m, tool |-> tool, args |-> args]
Plain(m) == Request(m, "-", 0)
Call(tool, args) == Request("tools/call", tool, args)

NoReq == [method |-> "none"]

\* hashRequest: SHA-256 of {method, params}
hashRequest(m, params) == <<m, params>>
Fp(r) == hashRequest(r.method, <<r.tool, r.args>>)

\* a statement that attaches the database file OtherDb
OtherDb == "/tmp/other.db"
AttachStatement == "ATTACH DATABASE '/tmp/other.db' AS other"

\* a step of type attach
AttachStep == [step_type |-> "attach", sql_template |-> AttachStatement]

\* the file a statement attaches when the engine runs it
AttachPath(sql) == IF sql = AttachStatement THEN {OtherDb} ELSE {}

\* executeSQL that runs every statement with Exec
executeSQLExecOnly(sql) == [ok |-> TRUE, value |-> "rows_affected"]

\* executeSQL: a SELECT returning one row with one column yields the value
\* of the column, a statement the engine rejects yields its error
executeSQL(sql) ==
    CASE sql = SelectOne -> [ok |-> TRUE, value |-> "1"]
      [] sql = SelectMissing -> [ok |-> FALSE, value |-> "no such table"]
      [] OTHER -> [ok |-> TRUE, value |-> "rows_affected"]

\* executeTool, one step, by step_type
executeStep(step) ==
    CASE step.step_type = "sql" -> executeSQL(step.sql_template)
      [] step.step_type = "validate" ->
            IF executeSQL(step.sql_template).ok THEN [ok |-> TRUE, value |-> "validated"]
            ELSE [ok |-> FALSE, value |-> "validation failed"]
      [] step.step_type = "attach" -> [ok |-> TRUE, value |-> "attached"]
      [] step.step_type = "transform" -> [ok |-> TRUE, value |-> "transformed"]
      [] OTHER -> [ok |-> FALSE, value |-> "unknown step type"]

\* executeTool: the steps run in order, the first error ends the run, and
\* the result is that of the last step; a tool without steps succeeds
RECURSIVE executeSteps(_, _)
executeSteps(steps, last) ==
    IF steps = <<>> THEN last
    ELSE LET r == executeStep(Head(steps))
         IN IF r.ok THEN executeSteps(Tail(steps), r) ELSE r

\* the files attached by the statements that executeTool hands to the engine
RECURSIVE AttachedBy(_)
AttachedBy(steps) ==
    IF steps = <<>> THEN {}
    ELSE LET step == Head(steps)
             r == executeStep(step)
         IN (IF step.step_type \in {"sql", "validate"} /\ r.ok
             THEN AttachPath(step.sql_template) ELSE {})
              \cup (IF r.ok THEN AttachedBy(Tail(steps)) ELSE {})

executeTool(steps) ==
    IF steps = <<>> THEN [ok |-> TRUE, value |-> "no steps defined"]
    ELSE executeSteps(steps, [ok |-> TRUE, value |-> ""])

\* the value handleRequest serializes and hashes on success
ResultOf(r) == IF r.method = "tools/call" THEN <<"content", r.value>>
               ELSE <<r.method>>

\* the value handleToolsCall serializes and hashes for tool_results: the
\* result of executeTool itself, which the value it returns wraps as text
ToolResultOf(r) == <<r.value>>

\* CheckProcessed that finds the rows of failed requests only
CheckProcessedFailedOnly(log, hash) ==
    \E row \in log: row.hash = hash /\ row.status = "failed"

\* Manager.CheckProcessed: SELECT 1 FROM processed_log WHERE hash = ?
CheckProcessed(log, hash) == \E row \in log: row.hash = hash

\* MarkProcessed on a table whose hash column is no key
MarkProcessedNoKey(log, hash, requestID, toolName, status, resultHash) ==
    log \cup {[hash |-> hash, request_id |-> requestID, tool_name |-> toolName,
               status |-> status, result_hash |-> resultHash]}

\* Manager.MarkProcessed: INSERT INTO processed_log, hash being the primary key
MarkProcessed(log, hash, requestID, toolName, status, resultHash) ==
    IF \E row \in log: row.hash = hash THEN log
    ELSE log \cup {[hash |-> hash, request_id |-> requestID, tool_name |-> toolName,
                    status |-> status, result_hash |-> resultHash]}

\* INSERT INTO tool_results of handleToolsCall, hash being the primary key
InsertToolResult(results, resultHash, requestHash, tool, resultJSON) ==
    IF \E row \in results: row.hash = resultHash THEN results
    ELSE results \cup {[hash |-> resultHash, request_id |-> requestHash,
                        tool_name |-> tool, result_json |-> resultJSON]}

\* Manager.Get of package circuit: the breaker of the name, created with the
\* defaults and inserted into circuit_breakers when the name is new
GetBreakers(bs, n, t) == IF bs[n] = NoBreaker THEN [bs EXCEPT ![n] = NewBreaker(t)] ELSE bs
GetRows(rows, bs, n, t) ==
    IF bs[n] = NoBreaker /\ rows[n] = NoRow THEN [rows EXCEPT ![n] = NewRow(t)] ELSE rows

\* a response line
Response(r, kind, code, message) ==
    [id |-> r.id, kind |-> kind, code |-> code, message |-> message, req |-> r]

Responses == {stdout[i]: i \in 1..Len(stdout)}

Handlers == 1..MaxInFlight

\* readLoop takes line r and starts a handler goroutine on it.  The request
\* carries its history: whether its fingerprint was in the ledger (replay)
\* and whether a result for the fingerprint had been written (late) when the
\* line was read, how many calls of its tool had been read (nth) and answered
\* (answered), whether this handler has run the tool (ran), and how long the
\* breaker had been in its state when the handler asked it (waited).
\* Goroutines are interchangeable: the line goes to the first idle one.
ReadLine(h, r, limit) ==
    /\ pc[h] = "idle"
    /\ \A g \in Handlers: g < h => pc[g] # "idle"
    /\ linesRead < limit
    /\ linesRead' = linesRead + 1
    /\ callsRead' = IF r.method = "tools/call" /\ r.tool \in Tools
                     THEN [callsRead EXCEPT ![r.tool] = @ + 1] ELSE callsRead
    /\ argsUsed' = IF r.method = "tools/call" /\ r.tool \in Tools /\ r.args > argsUsed[r.tool]
                    THEN [argsUsed EXCEPT ![r.tool] = r.args] ELSE argsUsed
    /\ req' = [req EXCEPT ![h] =
                 [method |-> r.method, tool |-> r.tool, args |-> r.args,
                  id |-> linesRead + 1,
                  replay |-> \E row \in processed_log: row.hash = Fp(r),
                  late |-> \E e \in Responses: Fp(e.req) = Fp(r) /\ e.kind = "result",
                  nth |-> IF r.tool \in Tools THEN callsRead[r.tool] + 1 ELSE 0,
                  answered |-> Cardinality({i \in 1..Len(stdout):
                                  stdout[i].req.method = "tools/call"
                                  /\ stdout[i].req.tool = r.tool}),
                  loaded |-> /\ r.tool \in Tools
                             /\ catalog[r.tool] # NoTool
                             /\ catalog[r.tool].steps = <<SqlStep(SelectOne)>>,
                  ran |-> FALSE, waited |-> 0, steps |-> <<>>, value |-> ""]]
    /\ pc' = [pc EXCEPT ![h] = "check"]
    /\ UNCHANGED <<processed_log, tool_results, stdout, requestsProcessed,
                   requestsFailed, securityEvents, execCount, breakerVars, otherVars>>

\* the method of a line that json.Unmarshal rejects
Unparsable == "<unparsable>"

\* handleRequest on a line that does not parse: error -32700 with no id
ParseError(h) ==
    /\ pc[h] = "check"
    /\ req[h].method = Unparsable
    /\ stdout' = Append(stdout, [Response(req[h], "error", -32700, "Parse error")
                                   EXCEPT !.id = 0])
    /\ pc' = [pc EXCEPT ![h] = "idle"]
    /\ req' = [req EXCEPT ![h] = NoReq]
    /\ UNCHANGED <<processed_log, tool_results, requestsProcessed, requestsFailed,
                   securityEvents, linesRead, callsRead, argsUsed, execCount, breakerVars,
                   otherVars>>

\* handleRequest up to the routing: parse, fingerprint, idempotency check
Check(h) ==
    /\ pc[h] = "check"
    /\ req[h].method # Unparsable
    /\ pc' = [pc EXCEPT ![h] =
                IF req[h].method \notin SkipIdempotence
                   /\ CheckProcessed(processed_log, Fp(req[h]))
                THEN "sendCached" ELSE "route"]
    /\ UNCHANGED <<processed_log, tool_results, req, stdout, requestsProcessed,
                   requestsFailed, securityEvents, linesRead, callsRead, argsUsed, execCount,
                   breakerVars, otherVars>>

\* the replay answer {cached: true, message: "Request already processed"}
SendCached(h) ==
    /\ pc[h] = "sendCached"
    /\ stdout' = Append(stdout, Response(req[h], "cached", 0, "Request already processed"))
    /\ pc' = [pc EXCEPT ![h] = "idle"]
    /\ req' = [req EXCEPT ![h] = NoReq]
    /\ UNCHANGED <<processed_log, tool_results, requestsProcessed, requestsFailed,
                   securityEvents, linesRead, callsRead, argsUsed, execCount, breakerVars, otherVars>>

\* the switch of handleRequest, and handleToolsCall up to the breaker check:
\* the tool is looked up in the catalog, its breaker is fetched or created
Route(h) ==
    /\ pc[h] = "route"
    /\ LET r == req[h]
           known == r.method = "tools/call" /\ r.tool \in Tools /\ catalog[r.tool] # NoTool
       IN /\ pc' = [pc EXCEPT ![h] =
                      IF r.method \notin Routed THEN "errNotFound"
                      ELSE IF r.method # "tools/call" THEN "markSuccess"
                      ELSE IF known THEN "gate"
                      ELSE "errNoTool"]
          /\ breakers' = IF known THEN GetBreakers(breakers, r.tool, now) ELSE breakers
          /\ circuit_breakers' =
                IF known THEN GetRows(circuit_breakers, breakers, r.tool, now)
                ELSE circuit_breakers
          /\ req' = IF known THEN [req EXCEPT ![h].steps = catalog[r.tool].steps] ELSE req
    /\ UNCHANGED <<processed_log, tool_results, stdout, requestsProcessed,
                   requestsFailed, securityEvents, linesRead, callsRead, argsUsed, execCount,
                   now, hoAdmitted, streak, lastOp, seen, otherVars>>

\* breaker.CanExecute of handleToolsCall; a rejection records a security event
Gate(h) ==
    /\ pc[h] = "gate"
    /\ LET n == req[h].tool
           b == breakers[n]
           ok == CanExecuteAdmits(b, now)
           nb == CanExecuteBreaker(b, now)
       IN /\ breakers' = [breakers EXCEPT ![n] = nb]
          /\ hoAdmitted' = [hoAdmitted EXCEPT ![n] = AdmittedAfter(b, ok, @)]
          /\ streak' = [streak EXCEPT ![n] = StreakAfter("CanExecute", b, nb, @)]
          /\ lastOp' = OpRecord("CanExecute", n, b, ok, now)
          /\ seen' = SeenAfter(b, nb, seen)
          /\ req' = [req EXCEPT ![h].waited = now - b.lastStateChange]
          /\ pc' = [pc EXCEPT ![h] = IF ok THEN "exec" ELSE "errOpen"]
          /\ securityEvents' = IF ok THEN securityEvents ELSE securityEvents + 1
    /\ UNCHANGED <<now, circuit_breakers, processed_log, tool_results, stdout,
                   requestsProcessed, requestsFailed, linesRead, callsRead, argsUsed, execCount, otherVars>>

\* executeTool: the steps of the tool run
Execute(h) ==
    /\ pc[h] = "exec"
    /\ execCount' = [execCount EXCEPT ![Fp(req[h])] = @ + 1]
    /\ LET run == executeTool(req[h].steps)
       IN /\ req' = [req EXCEPT ![h].ran = TRUE, ![h].value = run.value]
          /\ pc' = [pc EXCEPT ![h] = IF run.ok THEN "recordSuccess" ELSE "recordFailure"]
    /\ attached' = attached \cup AttachedBy(req[h].steps)
    /\ UNCHANGED <<processed_log, tool_results, stdout, requestsProcessed,
                   requestsFailed, securityEvents, linesRead, callsRead, argsUsed,
                   breakerVars, registryVars, allowed_attach_paths, restVars>>

\* breaker.RecordFailure of handleToolsCall
HandlerRecordFailure(h) ==
    /\ pc[h] = "recordFailure"
    /\ LET n == req[h].tool
           b == breakers[n]
           nb == RecordFailureBreaker(b, now)
       IN /\ breakers' = [breakers EXCEPT ![n] = nb]
          /\ circuit_breakers' = PersistBreaker(circuit_breakers, n, nb)
          /\ streak' = [streak EXCEPT ![n] = StreakAfter("RecordFailure", b, nb, @)]
          /\ lastOp' = OpRecord("RecordFailure", n, b, TRUE, now)
          /\ seen' = SeenAfter(b, nb, seen)
    /\ pc' = [pc EXCEPT ![h] = "errFailed"]
    /\ UNCHANGED <<now, hoAdmitted, processed_log, tool_results, req, stdout,
                   requestsProcessed, requestsFailed, securityEvents, linesRead,
                   callsRead, argsUsed, execCount, otherVars>>

\* breaker.RecordSuccess of handleToolsCall
HandlerRecordSuccess(h) ==
    /\ pc[h] = "recordSuccess"
    /\ LET n == req[h].tool
           b == breakers[n]
           nb == RecordSuccessBreaker(b, now)
       IN /\ breakers' = [breakers EXCEPT ![n] = nb]
          /\ circuit_breakers' = PersistBreaker(circuit_breakers, n, nb)
          /\ streak' = [streak EXCEPT ![n] = StreakAfter("RecordSuccess", b, nb, @)]
          /\ lastOp' = OpRecord("RecordSuccess", n, b, TRUE, now)
          /\ seen' = SeenAfter(b, nb, seen)
    /\ pc' = [pc EXCEPT ![h] = "persist"]
    /\ UNCHANGED <<now, hoAdmitted, processed_log, tool_results, req, stdout,
                   requestsProcessed, requestsFailed, securityEvents, linesRead,
                   callsRead, argsUsed, execCount, otherVars>>

\* handleToolsCall stores the result row
PersistResult(h) ==
    /\ pc[h] = "persist"
    /\ tool_results' = InsertToolResult(tool_results, ToolResultOf(req[h]), Fp(req[h]),
                                         req[h].tool, req[h].value)
    /\ pc' = [pc EXCEPT ![h] = "markSuccess"]
    /\ UNCHANGED <<processed_log, req, stdout, requestsProcessed, requestsFailed,
                   securityEvents, linesRead, callsRead, argsUsed, execCount, breakerVars, otherVars>>

\* success path of handleRequest: the counter, then the ledger row
MarkSuccess(h) ==
    /\ pc[h] = "markSuccess"
    /\ requestsProcessed' = requestsProcessed + 1
    /\ processed_log' = MarkProcessed(processed_log, Fp(req[h]), req[h].id,
                                       req[h].method, "success", ResultOf(req[h]))
    /\ pc' = [pc EXCEPT ![h] = "sendResult"]
    /\ UNCHANGED <<tool_results, req, stdout, requestsFailed, securityEvents,
                   linesRead, callsRead, argsUsed, execCount, breakerVars, otherVars>>

\* success path of handleRequest: the response line
SendResult(h) ==
    /\ pc[h] = "sendResult"
    /\ stdout' = Append(stdout, Response(req[h], "result", 0, "ok"))
    /\ pc' = [pc EXCEPT ![h] = "idle"]
    /\ req' = [req EXCEPT ![h] = NoReq]
    /\ UNCHANGED <<processed_log, tool_results, requestsProcessed, requestsFailed,
                   securityEvents, linesRead, callsRead, argsUsed, execCount, breakerVars, otherVars>>

\* the error a handler returned, by the place it returned from
ErrorCode(at) ==
    CASE at = "errNotFound" -> -32601
      [] at = "errNoTool" -> -32602
      [] OTHER -> -32000
ErrorMessage(at) ==
    CASE at = "errNotFound" -> "Method not found"
      [] at = "errNoTool" -> "Tool not found"
      [] at = "errOpen" -> "Circuit breaker open"
      [] OTHER -> "Tool execution failed"

ErrorPlaces == {"errNotFound", "errNoTool", "errOpen", "errFailed"}

\* error path of handleRequest: the counter, then the response line
SendError(h) ==
    /\ pc[h] \in ErrorPlaces
    /\ requestsFailed' = requestsFailed + 1
    /\ stdout' = Append(stdout, Response(req[h], "error", ErrorCode(pc[h]),
                                          ErrorMessage(pc[h])))
    /\ pc' = [pc EXCEPT ![h] = "markFailed"]
    /\ UNCHANGED <<processed_log, tool_results, req, requestsProcessed,
                   securityEvents, linesRead, callsRead, argsUsed, execCount, breakerVars, otherVars>>

\* error path of handleRequest: the ledger row, after the response
MarkFailed(h) ==
    /\ pc[h] = "markFailed"
    /\ processed_log' = MarkProcessed(processed_log, Fp(req[h]), req[h].id,
                                       req[h].method, "failed", "")
    /\ pc' = [pc EXCEPT ![h] = "idle"]
    /\ req' = [req EXCEPT ![h] = NoReq]
    /\ UNCHANGED <<tool_results, stdout, requestsProcessed, requestsFailed,
                   securityEvents, linesRead, callsRead, argsUsed, execCount, breakerVars, otherVars>>

\* the steps of a handler goroutine
Handle(h) ==
    \/ Check(h)
    \/ SendCached(h)
    \/ Route(h)
    \/ Gate(h)
    \/ Execute(h)
    \/ HandlerRecordFailure(h)
    \/ HandlerRecordSuccess(h)
    \/ PersistResult(h)
    \/ MarkSuccess(h)
    \/ SendResult(h)
    \/ SendError(h)
    \/ MarkFailed(h)

\* the read-only MCP methods
ReadOnlyMethods == {"initialize", "tools/list", "resources/list", "prompts/list", "ping"}

\* the request lines of Spec
Lines ==
    {Plain(m): m \in ReadOnlyMethods} \cup {Plain("foo/bar")}
      \cup {Call("ok_tool", 1), Call("bad_tool", 1), Call("no_tool", 1)}

\* the request lines of SpecCircuit: calls of bad_tool whose arguments are
\* those of its first call or new ones, and calls of ok_tool
CircuitLines ==
    {Call("bad_tool", 1), Call("bad_tool", argsUsed["bad_tool"] + 1)}
      \cup {Call("ok_tool", 1)}

AllLines == Lines \cup {Call(n, a): n \in Tools, a \in 1..MaxCalls}

\* a server whose tools manager has loaded ok_tool and bad_tool and whose
\* tables are empty
InitServer ==
    /\ now = 0
    /\ circuit_breakers = [n \in Tools |-> NoRow]
    /\ breakers = LoadAll(circuit_breakers)
    /\ hoAdmitted = [n \in Tools |-> 0]
    /\ streak = [n \in Tools |-> 0]
    /\ lastOp = NoOp
    /\ seen = {}
    /\ processed_log = {}
    /\ tool_results = {}
    /\ pc = [h \in Handlers |-> "idle"]
    /\ req = [h \in Handlers |-> NoReq]
    /\ stdout = <<>>
    /\ requestsProcessed = 0
    /\ requestsFailed = 0
    /\ securityEvents = 0
    /\ linesRead = 0
    /\ callsRead = [n \in Tools |-> 0]
    /\ argsUsed = [n \in Tools |-> 0]
    /\ execCount = [f \in {Fp(r): r \in AllLines} |-> 0]
    /\ OtherInit

Next ==
    \/ \E h \in Handlers, r \in Lines: ReadLine(h, r, MaxRequests)
    \/ \E h \in Handlers: Handle(h)

NextCircuit ==
    \/ \E h \in Handlers, r \in CircuitLines:
          /\ \A g \in Handlers: pc[g] = "idle"
          /\ r.tool = "ok_tool" => callsRead["ok_tool"] < MaxOther
          /\ r.tool = "bad_tool" => callsRead["bad_tool"] < MaxCalls
          /\ ReadLine(h, r, MaxCalls + MaxOther)
    \/ \E h \in Handlers: Handle(h)
    \/ Advance(MaxNowCircuit)

\* the server handling any lines, concurrently
Spec == InitServer /\ [][Next]_vars

\* the server handling calls of bad_tool and ok_tool while time passes; the
\* client sends a line when it has read the answer to the line before
SpecCircuit == InitServer /\ [][NextCircuit]_vars

----------------------------------------------------------------------------
(* The breaker alone, called in any order by any number of goroutines: each *)
(* method holds b.mu from entry to return, so a call is one step.           *)

\* thresholds a circuit_breakers row may carry, the defaults among them
FailureThresholds == {2, DefaultFailureThreshold}
SuccessThresholds == {1, DefaultSuccessThreshold}
HalfOpenMaxCallsSet == {1, DefaultHalfOpenMaxCalls}

\* the server state while only the breakers are exercised
ServerIdle ==
    /\ processed_log = {}
    /\ tool_results = {}
    /\ pc = [h \in Handlers |-> "idle"]
    /\ req = [h \in Handlers |-> NoReq]
    /\ stdout = <<>>
    /\ requestsProcessed = 0
    /\ requestsFailed = 0
    /\ securityEvents = 0
    /\ linesRead = 0
    /\ callsRead = [n \in Tools |-> 0]
    /\ argsUsed = [n \in Tools |-> 0]
    /\ execCount = [f \in {Fp(r): r \in AllLines} |-> 0]

\* a breaker loaded by LoadAll from a row holding the schema's default state
\* columns and thresholds set by an operator
InitBreaker ==
    /\ now = 0
    /\ \E ft \in FailureThresholds, st \in SuccessThresholds, hm \in HalfOpenMaxCallsSet:
          circuit_breakers =
            [n \in Tools |->
                IF n = "bad_tool"
                THEN [NewRow(0) EXCEPT !.failure_threshold = ft,
                                       !.success_threshold = st,
                                       !.half_open_max_calls = hm]
                ELSE NoRow]
    /\ breakers = LoadAll(circuit_breakers)
    /\ hoAdmitted = [n \in Tools |-> 0]
    /\ streak = [n \in Tools |-> 0]
    /\ lastOp = NoOp
    /\ seen = {}
    /\ ServerIdle
    /\ OtherInit

Tick == Advance(MaxNow)

NextRecord ==
    \/ \E n \in Tools: CanExecute(n)
    \/ \E n \in Tools: RecordSuccess(n)
    \/ \E n \in Tools: RecordFailure(n)
    \/ Tick

NextBreaker ==
    \/ \E n \in Tools: CanExecute(n)
    \/ \E n \in Tools: RecordSuccess(n)
    \/ \E n \in Tools: RecordFailure(n)
    \/ \E n \in Tools: Reset(n)
    \/ Tick

\* CanExecute, RecordSuccess, RecordFailure in any order
SpecRecord == InitBreaker /\ [][NextRecord]_vars

\* CanExecute, RecordSuccess, RecordFailure and Reset in any order
SpecBreaker == InitBreaker /\ [][NextBreaker]_vars

----------------------------------------------------------------------------
(* The tool registry alone: statements on tool_definitions, createTool, the *)
(* poll loop and readers of the catalog, in any order.                      *)

\* no breaker loaded, no request in flight
CoreIdle ==
    /\ now = 0
    /\ circuit_breakers = [n \in Tools |-> NoRow]
    /\ breakers = LoadAll(circuit_breakers)
    /\ hoAdmitted = [n \in Tools |-> 0]
    /\ streak = [n \in Tools |-> 0]
    /\ lastOp = NoOp
    /\ seen = {}
    /\ ServerIdle

\* a tool shard that holds bad_tool when the server starts
InitRegistry ==
    /\ CoreIdle
    /\ RegistryInit([n \in Tools |-> IF n = "bad_tool" THEN DefinitionRow(1) ELSE NoDef],
                    [n \in Tools |-> IF n = "bad_tool" THEN <<SqlStep(SelectMissing)>>
                                     ELSE <<>>])
    /\ RestInit

NextRegistry ==
    \/ \E n \in Tools, d \in Descriptions: InsertTool(n, d)
    \/ \E n \in Tools, d \in Descriptions, e \in {0, 1}: UpdateTool(n, d, e)
    \/ \E n \in Tools: DeleteTool(n)
    \/ CreateDefinition("ok_tool")
    \/ CreateStep("ok_tool")
    \/ PollFlag
    \/ ReloadQuery
    \/ \E n \in Tools: ReloadLoadSteps(n)
    \/ ReloadSwap
    \/ PollClear
    \/ List

SpecRegistry == InitRegistry /\ [][NextRegistry]_vars

----------------------------------------------------------------------------
(* The server while ok_tool is created and hot-reloaded: a client sends     *)
(* tools/call(ok_tool, 1) before or after the tool is loaded.               *)

ReloadLines == {Call("ok_tool", 1), Call("bad_tool", 1)}

NextReload ==
    \/ \E h \in Handlers, r \in ReloadLines: ReadLine(h, r, MaxRequests)
    \/ \E h \in Handlers: Handle(h)
    \/ CreateDefinition("ok_tool")
    \/ CreateStep("ok_tool")
    \/ PollFlag
    \/ ReloadQuery
    \/ \E n \in Tools: ReloadLoadSteps(n)
    \/ ReloadSwap
    \/ PollClear

SpecReload == InitRegistry /\ [][NextReload]_vars

----------------------------------------------------------------------------
(* The server with a tool whose step attaches a database file, by a         *)
(* statement of a step of type sql or by a step of type attach.             *)

AttachLines == {Call("ok_tool", 1), Call("no_tool", 1), Plain("tools/list")}

InitAttach ==
    /\ CoreIdle
    /\ \E steps \in {<<SqlStep(AttachStatement)>>, <<AttachStep>>,
                     <<SqlStep(AttachStatement), SqlStep(SelectMissing)>>}:
          RegistryInit([n \in Tools |-> IF n = "ok_tool" THEN DefinitionRow(1) ELSE NoDef],
                       [n \in Tools |-> IF n = "ok_tool" THEN steps ELSE <<>>])
    /\ \E allowed \in SUBSET {OtherDb}:
          AttachInit({AttachRow("worker", path, 1): path \in allowed})
    /\ ShutdownInit
    /\ RetryInit({})
    /\ MoreInit

NextAttach ==
    \/ \E h \in Handlers, r \in AttachLines: ReadLine(h, r, MaxRequests)
    \/ \E h \in Handlers: Handle(h)

SpecAttach == InitAttach /\ [][NextAttach]_vars

----------------------------------------------------------------------------
(* Shutdown: the goroutine started by Start on SIGTERM or SIGINT runs       *)
(* Shutdown while heartbeatLoop, readLoop and the handlers go on.  The      *)
(* process ends when readLoop, and so Start and main, return.               *)

\* the process has not exited
Running == readPc # "returned"

\* the handler goroutines counted by Server.wg have all returned
WaitGroupDone == \A h \in Handlers: pc[h] = "idle"

\* SIGTERM or SIGINT arrives: Shutdown begins with close(shutdownChan)
Signal ==
    /\ Running
    /\ shutPc = "idle"
    /\ shutdownChan' = "closed"
    /\ shutPc' = "heartbeat"
    /\ UNCHANGED <<heartbeat, hbPc, readPc, dbLog, serverVars, breakerVars, registryVars,
                   attachVars, retryVars, moreVars>>

\* Shutdown: UpdateHeartbeat("shutting_down")
ShutdownHeartbeat ==
    /\ Running
    /\ shutPc = "heartbeat"
    /\ heartbeat' = "shutting_down"
    /\ shutPc' = "wait"
    /\ UNCHANGED <<shutdownChan, hbPc, readPc, dbLog, serverVars, breakerVars,
                   registryVars, attachVars, retryVars, moreVars>>

\* Shutdown: wg.Wait has returned, or the 60 seconds have passed; then the
\* components are stopped
ShutdownWait(timeout) ==
    /\ Running
    /\ shutPc = "wait"
    /\ timeout \/ WaitGroupDone
    /\ shutPc' = "stopped"
    /\ UNCHANGED <<shutdownChan, heartbeat, hbPc, readPc, dbLog, serverVars, breakerVars,
                   registryVars, attachVars, retryVars, moreVars>>

\* Shutdown: UPDATE heartbeat SET status = 'stopped'
ShutdownStopped ==
    /\ Running
    /\ shutPc = "stopped"
    /\ heartbeat' = "stopped"
    /\ dbLog' = Append(dbLog, "stopped")
    /\ shutPc' = "checkpoint"
    /\ UNCHANGED <<shutdownChan, hbPc, readPc, serverVars, breakerVars, registryVars,
                   attachVars, retryVars, moreVars>>

\* Shutdown: Manager.Checkpoint, PRAGMA wal_checkpoint(TRUNCATE) on each shard
Checkpoint ==
    /\ Running
    /\ shutPc = "checkpoint"
    /\ dbLog' = Append(dbLog, "checkpoint")
    /\ shutPc' = "close"
    /\ UNCHANGED <<shutdownChan, heartbeat, hbPc, readPc, serverVars, breakerVars,
                   registryVars, attachVars, retryVars, moreVars>>

\* Shutdown: Manager.Close, and Shutdown returns
Close ==
    /\ Running
    /\ shutPc = "close"
    /\ dbLog' = Append(dbLog, "close")
    /\ shutPc' = "done"
    /\ UNCHANGED <<shutdownChan, heartbeat, hbPc, readPc, serverVars, breakerVars,
                   registryVars, attachVars, retryVars, moreVars>>

Shutdown ==
    \/ ShutdownHeartbeat
    \/ \E timeout \in BOOLEAN: ShutdownWait(timeout)
    \/ ShutdownStopped
    \/ Checkpoint
    \/ Close

\* heartbeatLoop: the select takes the tick
heartbeatTick ==
    /\ Running
    /\ hbPc = "wait"
    /\ shutdownChan = "open"
    /\ hbPc' = "update"
    /\ UNCHANGED <<shutdownChan, heartbeat, shutPc, readPc, dbLog, serverVars, breakerVars,
                   registryVars, attachVars, retryVars, moreVars>>

\* heartbeatLoop: UpdateHeartbeat("running"), INSERT OR REPLACE INTO heartbeat;
\* the statement fails once the shards are closed
UpdateHeartbeat ==
    /\ Running
    /\ hbPc = "update"
    /\ heartbeat' = IF \E i \in 1..Len(dbLog): dbLog[i] = "close" THEN heartbeat
                    ELSE "running"
    /\ hbPc' = "wait"
    /\ UNCHANGED <<shutdownChan, shutPc, readPc, dbLog, serverVars, breakerVars,
                   registryVars, attachVars, retryVars, moreVars>>

\* heartbeatLoop: the select takes the closed shutdownChan
heartbeatReturn ==
    /\ Running
    /\ hbPc = "wait"
    /\ shutdownChan = "closed"
    /\ hbPc' = "done"
    /\ UNCHANGED <<shutdownChan, heartbeat, shutPc, readPc, dbLog, serverVars, breakerVars,
                   registryVars, attachVars, retryVars, moreVars>>

heartbeatLoop == heartbeatTick \/ UpdateHeartbeat \/ heartbeatReturn

\* readLoop: Scan returns a line and shutdownChan is closed: readLoop returns
readLoopStop ==
    /\ readPc = "scan"
    /\ shutdownChan = "closed"
    /\ readPc' = "returned"
    /\ UNCHANGED <<shutdownChan, heartbeat, shutPc, hbPc, dbLog, serverVars, breakerVars,
                   registryVars, attachVars, retryVars, moreVars>>

\* readLoop: Scan returns false at the end of stdin
readLoopEOF ==
    /\ readPc = "scan"
    /\ readPc' = "eof"
    /\ UNCHANGED <<shutdownChan, heartbeat, shutPc, hbPc, dbLog, serverVars, breakerVars,
                   registryVars, attachVars, retryVars, moreVars>>

\* readLoop: wg.Wait after the end of stdin, then readLoop returns
readLoopReturn ==
    /\ readPc = "eof"
    /\ WaitGroupDone
    /\ readPc' = "returned"
    /\ UNCHANGED <<shutdownChan, heartbeat, shutPc, hbPc, dbLog, serverVars, breakerVars,
                   registryVars, attachVars, retryVars, moreVars>>

ShutdownLines == {Plain("ping"), Call("ok_tool", 1)}

\* readLoop: Scan returns a line, shutdownChan is open: a handler is started
readLoopLine ==
    /\ readPc = "scan"
    /\ shutdownChan = "open"
    /\ \E h \in Handlers, r \in ShutdownLines: ReadLine(h, r, MaxRequests)

\* what stdin makes readLoop do
Stdin == readLoopLine \/ readLoopStop \/ readLoopEOF

\* the handler goroutines, while the process lives
Handling == Running /\ \E h \in Handlers: Handle(h)

NextShutdown ==
    \/ Signal
    \/ Shutdown
    \/ heartbeatLoop
    \/ Stdin
    \/ readLoopReturn
    \/ Handling

SpecShutdown == InitServer /\ [][NextShutdown]_vars

\* the goroutines are scheduled; stdin and the signal are left to the world
SpecShutdownFair ==
    /\ SpecShutdown
    /\ WF_vars(Shutdown)
    /\ WF_vars(heartbeatLoop)
    /\ WF_vars(readLoopReturn)
    /\ WF_vars(Handling)

----------------------------------------------------------------------------
(* The retry queue: AddRetryJob and the sweeps of ProcessRetryQueue while   *)
(* the clock advances second by second.                                     *)

RetryTools == Tools \cup {"no_tool"}

\* the request ids for which a job has been added
JobsAdded ==
    {row.request_id: row \in retry_queue}
      \cup {retryLog[i].request_id: i \in 1..Len(retryLog)}

\* AddRetryJob: INSERT INTO retry_queue, first retry in 2 seconds.  The
\* caller passes a request id it has not passed before, and the key of the
\* row is taken to be that id.
AddRetryJob(requestID, toolName, maxAttempts) ==
    /\ Cardinality(JobsAdded) < MaxJobs
    /\ requestID \notin JobsAdded
    /\ retry_queue' = retry_queue \cup
          {[id |-> requestID, request_id |-> requestID,
            tool_name |-> toolName, attempt_number |-> 1, max_attempts |-> maxAttempts,
            next_retry_at |-> now + 2, backoff_seconds |-> 2, status |-> "pending",
            last_error |-> ""]}
    /\ UNCHANGED <<dead_letter_queue, sweep, retryLog, serverVars, breakerVars,
                   registryVars, attachVars, shutdownVars, moreVars>>

\* ProcessRetryQueue: the SELECT of the pending rows that are due
SweepSelect ==
    /\ sweep = {}
    /\ sweep' = {row \in retry_queue: row.status = "pending" /\ row.next_retry_at <= now}
    /\ sweep' # {}
    /\ UNCHANGED <<retry_queue, dead_letter_queue, retryLog, serverVars, breakerVars,
                   registryVars, attachVars, shutdownVars, moreVars>>

\* as RetriedRow, but the last attempt is told with > in place of >=
RetriedRowOnceMore(job, found, run, t) ==
    IF ~found THEN {[job EXCEPT !.status = "exhausted", !.last_error = "Tool not found"]}
    ELSE IF run.ok THEN {}
    ELSE IF job.attempt_number > job.max_attempts
         THEN {[job EXCEPT !.status = "exhausted"]}
    ELSE {[job EXCEPT !.status = "pending",
                      !.attempt_number = @ + 1,
                      !.backoff_seconds = @ * 2,
                      !.next_retry_at = t + job.backoff_seconds * 2,
                      !.last_error = run.value]}

\* the row of job after ProcessRetryQueue has worked on it, if it is kept
RetriedRow(job, found, run, t) ==
    IF ~found THEN {[job EXCEPT !.status = "exhausted", !.last_error = "Tool not found"]}
    ELSE IF run.ok THEN {}
    ELSE IF job.attempt_number >= job.max_attempts
         THEN {[job EXCEPT !.status = "exhausted"]}
    ELSE {[job EXCEPT !.status = "pending",
                      !.attempt_number = @ + 1,
                      !.backoff_seconds = @ * 2,
                      !.next_retry_at = t + job.backoff_seconds * 2,
                      !.last_error = run.value]}

\* ProcessRetryQueue, one selected row: the tool is looked up and executed;
\* a failure at the last attempt inserts into dead_letter_queue
ProcessJob(job) ==
    /\ job \in sweep
    /\ sweep' = sweep \ {job}
    /\ LET found == job.tool_name \in Tools /\ catalog[job.tool_name] # NoTool
           run == IF found THEN executeTool(catalog[job.tool_name].steps)
                  ELSE [ok |-> FALSE, value |-> "Tool not found"]
           dead == found /\ ~run.ok /\ job.attempt_number >= job.max_attempts
       IN /\ retry_queue' = (retry_queue \ {job}) \cup RetriedRow(job, found, run, now)
          /\ dead_letter_queue' =
                IF dead
                THEN dead_letter_queue \cup
                       {[id |-> Cardinality(dead_letter_queue) + 1,
                         request_id |-> job.request_id, tool_name |-> job.tool_name,
                         error_message |-> run.value, attempts |-> job.attempt_number]}
                ELSE dead_letter_queue
          /\ retryLog' = IF found
                         THEN Append(retryLog, [request_id |-> job.request_id,
                                                backoff |-> job.backoff_seconds])
                         ELSE retryLog
    /\ UNCHANGED <<serverVars, breakerVars, registryVars, attachVars, shutdownVars, moreVars>>

\* a second passes
Sleep ==
    /\ now < MaxNowRetry
    /\ now' = now + 1
    /\ UNCHANGED <<breakers, circuit_breakers, hoAdmitted, streak, lastOp, seen, serverVars,
                   otherVars>>

NextRetry ==
    \/ \E id \in 1..MaxJobs, n \in RetryTools: AddRetryJob(id, n, 3)
    \/ SweepSelect
    \/ \E job \in sweep: ProcessJob(job)
    \/ Sleep

SpecRetry == InitServer /\ [][NextRetry]_vars

\* the values of maxAttempts a caller of AddRetryJob may pass
MaxAttempts == {0, 1, 3}

\* as NextRetry, with every value of maxAttempts
NextAttempts ==
    \/ \E id \in 1..MaxJobs, n \in RetryTools, m \in MaxAttempts: AddRetryJob(id, n, m)
    \/ SweepSelect
    \/ \E job \in sweep: ProcessJob(job)
    \/ Sleep

SpecAttempts == InitServer /\ [][NextAttempts]_vars

----------------------------------------------------------------------------
(* send: each handler goroutine marshals its response and hands the line to *)
(* os.Stdout in one Write call.  Write holds the write lock of the file for *)
(* the whole call and may need several write(2) calls to pass the line.     *)

coreVars == <<serverVars, breakerVars, registryVars, attachVars, shutdownVars, retryVars>>

notSendVars == <<coreVars, bootVars, scanVars, validateVars, pillVars, lateVars>>

notBootVars == <<coreVars, sendVars, scanVars, validateVars, pillVars, lateVars>>

notScanVars == <<coreVars, sendVars, bootVars, validateVars, pillVars, lateVars>>

earlyVars == <<coreVars, sendVars, bootVars, scanVars, validateVars, pillVars>>

\* the lines handed to send so far
LinesSent == {sending[h].line: h \in Handlers} \cup {stream[i][1]: i \in 1..Len(stream)}

\* a Write that does not wait for the lock
WriteLockIgnored(lock) == TRUE

\* os.Stdout.Write may start when no other Write holds the write lock
WriteLockFree(lock) == lock = 0

\* handler h calls send with the response to line id
sendCall(h, id) ==
    /\ sending[h].at = "idle"
    /\ id \notin LinesSent
    /\ sending' = [sending EXCEPT ![h] = [at |-> "fprintln", line |-> id, part |-> 0]]
    /\ UNCHANGED <<stream, writeLock, notSendVars>>

\* fmt.Fprintln: Write takes the write lock
WriteBegin(h) ==
    /\ sending[h].at = "fprintln"
    /\ WriteLockFree(writeLock)
    /\ writeLock' = h
    /\ sending' = [sending EXCEPT ![h].at = "write", ![h].part = 1]
    /\ UNCHANGED <<stream, notSendVars>>

\* Write: one write(2) passes the next part of the line; after the last
\* one the lock is released and send returns
WritePart(h, last) ==
    /\ sending[h].at = "write"
    /\ last \/ sending[h].part < MaxParts
    /\ stream' = Append(stream, <<sending[h].line, sending[h].part, last>>)
    /\ sending' = [sending EXCEPT ![h] =
                     IF last THEN [at |-> "idle", line |-> 0, part |-> 0]
                     ELSE [@ EXCEPT !.part = @ + 1]]
    /\ writeLock' = IF last /\ writeLock = h THEN 0 ELSE writeLock
    /\ UNCHANGED notSendVars

NextSend ==
    \/ \E h \in Handlers, id \in 1..MaxSends: sendCall(h, id)
    \/ \E h \in Handlers: WriteBegin(h)
    \/ \E h \in Handlers, last \in BOOLEAN: WritePart(h, last)

SpecSend == InitServer /\ [][NextSend]_vars

----------------------------------------------------------------------------
(* The lines of stdin, well-formed or not, and their responses, while a     *)
(* signal may start Shutdown.                                               *)

StdinLines == {Plain(Unparsable), Plain("ping"), Call("ok_tool", 1)}

\* readLoop: Scan returns a line, shutdownChan is open: a handler is started
readLoopTake ==
    /\ readPc = "scan"
    /\ shutdownChan = "open"
    /\ \E h \in Handlers, r \in StdinLines: ReadLine(h, r, MaxRequests)

NextLines ==
    \/ readLoopTake
    \/ readLoopStop
    \/ readLoopEOF
    \/ readLoopReturn
    \/ Handling
    \/ Running /\ \E h \in Handlers: ParseError(h)
    \/ Signal
    \/ Shutdown

SpecLines == InitServer /\ [][NextLines]_vars

----------------------------------------------------------------------------
(* Startup: NewServer, RecoverAndMigrate and recoverDB *)

SchemaVersion == 1

\* the user_version a shard may hold when the server starts
UserVersions == {0, SchemaVersion}

\* database.NewManager opens the six shards; NewServer returns its error
NewManager(opened) ==
    /\ boot.at = "open"
    /\ boot' = [boot EXCEPT !.at = IF opened THEN "recover" ELSE "aborted"]
    /\ UNCHANGED notBootVars

\* one turn of the loop of RecoverAndMigrate over the map of shards: the
\* checkpoint of the shard succeeds or not, the shard is at version or below,
\* and applyMigrations succeeds or not; a failed checkpoint is warned about and
\* the turn goes on, a failed migration makes RecoverAndMigrate return its error
recoverDB(name, checkpointed, version, migrated) ==
    /\ boot.at = "recover"
    /\ name \in boot.todo
    /\ LET failed == version < SchemaVersion /\ ~migrated
       IN  boot' = [boot EXCEPT
                      !.todo = @ \ {name},
                      !.checkpointFailed = IF checkpointed THEN @ ELSE @ \cup {name},
                      !.migrationFailed = IF failed THEN @ \cup {name} ELSE @,
                      !.at = IF failed THEN "warned" ELSE @]
    /\ UNCHANGED notBootVars

\* NewServer after RecoverAndMigrate: an error is written to stderr as a
\* warning, and in both cases the server is built and returned
NewServer ==
    /\ \/ boot.at = "warned"
       \/ boot.at = "recover" /\ boot.todo = {}
    /\ boot' = [boot EXCEPT !.at = "created"]
    /\ UNCHANGED notBootVars

InitStartup ==
    /\ CoreIdle
    /\ RegistryInit(StockDefs, StockImpls)
    /\ AttachInit({})
    /\ ShutdownInit
    /\ RetryInit({})
    /\ SendInit
    /\ ScanInit
    /\ ValidateInit
    /\ PillInit
    /\ LateInit
    /\ BootAt("open", Shards)

NextStartup ==
    \/ \E opened \in BOOLEAN: NewManager(opened)
    \/ \E name \in Shards, checkpointed \in BOOLEAN, version \in UserVersions,
          migrated \in BOOLEAN: recoverDB(name, checkpointed, version, migrated)
    \/ NewServer

SpecStartup == InitStartup /\ [][NextStartup]_vars

----------------------------------------------------------------------------
(* The scanner of readLoop and the slices it hands to the handlers *)

\* the bytes of no single line: a mixture read while the buffer is written
Torn == 0

\* the place in the buffer where Scan leaves the line-th line: lines follow
\* each other until the buffer is used again from its start
SlotOf(line) == ((line - 1) % MaxSlots) + 1

\* readLoop: scanner.Scan fills the buffer with the next line, scanner.Bytes
\* is a slice of that buffer, and the slice itself goes to the new goroutine
Scan ==
    /\ scanned < MaxScans
    /\ scanned' = scanned + 1
    /\ scanBuf' = [scanBuf EXCEPT ![SlotOf(scanned + 1)] = scanned + 1]
    /\ handed' = handed \cup {[line |-> scanned + 1, slot |-> SlotOf(scanned + 1)]}
    /\ UNCHANGED <<parsedAs, notScanVars>>

\* what json.Unmarshal may read through a slice of the buffer: the line left
\* there, or, once Scan has written there again without synchronisation, the
\* later line or a mixture of both
Readable(slice) ==
    IF scanBuf[slice.slot] = slice.line THEN {slice.line}
    ELSE {scanBuf[slice.slot], Torn}

\* handleRequest: json.Unmarshal(data, &req), data being the slice it was given
Unmarshal(slice, saw) ==
    /\ slice \in handed
    /\ saw \in Readable(slice)
    /\ handed' = handed \ {slice}
    /\ parsedAs' = parsedAs \cup {[line |-> slice.line, saw |-> saw]}
    /\ UNCHANGED <<scanBuf, scanned, notScanVars>>

NextScan ==
    \/ Scan
    \/ \E line \in 1..MaxScans, saw \in 0..MaxScans:
          Unmarshal([line |-> line, slot |-> SlotOf(line)], saw)

SpecScan == InitServer /\ [][NextScan]_vars

----------------------------------------------------------------------------
(* Shutdown called twice: the signal goroutine and poisonPillLoop *)

\* the process lives: main has not returned and no goroutine has panicked
Alive == Running /\ panicked = NoPanic

\* the first statement of Shutdown, close(s.shutdownChan), run by caller: the
\* close of a channel already closed panics, and the panic ends the process
closeShutdownChan(caller) ==
    IF shutdownChan = "open"
    THEN /\ shutdownChan' = "closed"
         /\ shutPc' = "heartbeat"
         /\ UNCHANGED panicked
    ELSE /\ panicked' = caller
         /\ UNCHANGED <<shutdownChan, shutPc>>

\* the goroutine of Start: <-sigChan, then s.Shutdown()
signalShutdown ==
    /\ Alive
    /\ sigPc = "wait"
    /\ sigPc' = "called"
    /\ closeShutdownChan("signal")
    /\ UNCHANGED <<pillPc, heartbeat, hbPc, readPc, dbLog, serverVars, breakerVars,
                   registryVars, attachVars, retryVars, sendVars, bootVars, scanVars,
                   validateVars, lateVars>>

\* poisonPillLoop: the select takes the tick; it may do so when shutdownChan
\* is closed as well, the choice among ready cases being arbitrary
poisonPillTick ==
    /\ Alive
    /\ pillPc = "wait"
    /\ pillPc' = "check"
    /\ UNCHANGED <<sigPc, panicked, coreVars, sendVars, bootVars, scanVars, validateVars,
                   lateVars>>

\* poisonPillLoop: CheckPoisonPill, and s.Shutdown() when the pill is there
CheckPoisonPill(triggered) ==
    /\ Alive
    /\ pillPc = "check"
    /\ IF triggered
       THEN /\ pillPc' = "called"
            /\ closeShutdownChan("pill")
       ELSE /\ pillPc' = "wait"
            /\ UNCHANGED <<panicked, shutdownChan, shutPc>>
    /\ UNCHANGED <<sigPc, heartbeat, hbPc, readPc, dbLog, serverVars, breakerVars,
                   registryVars, attachVars, retryVars, sendVars, bootVars, scanVars,
                   validateVars, lateVars>>

\* poisonPillLoop: the select takes the closed shutdownChan
poisonPillReturn ==
    /\ Alive
    /\ pillPc = "wait"
    /\ shutdownChan = "closed"
    /\ pillPc' = "done"
    /\ UNCHANGED <<sigPc, panicked, coreVars, sendVars, bootVars, scanVars, validateVars,
                   lateVars>>

poisonPillLoop ==
    \/ poisonPillTick
    \/ \E triggered \in BOOLEAN: CheckPoisonPill(triggered)
    \/ poisonPillReturn

NextPoison ==
    \/ signalShutdown
    \/ poisonPillLoop
    \/ Alive /\ Shutdown
    \/ Alive /\ heartbeatLoop
    \/ Alive /\ readLoopStop
    \/ Alive /\ readLoopEOF
    \/ Alive /\ readLoopReturn

SpecPoison == InitServer /\ [][NextPoison]_vars

----------------------------------------------------------------------------
(* A breaker loaded open or half-open, and the calls of its tool: every     *)
(* admitted call runs the tool and records its outcome, as handleToolsCall  *)
(* does.                                                                    *)

\* the rows a run can leave for the next: open after the failures that opened
\* the breaker, or half-open after a first success below the threshold
LeftRows(st, hm) ==
    {[NewRow(0) EXCEPT !.state = StateOpen,
                       !.failure_count = DefaultFailureThreshold,
                       !.success_threshold = st, !.half_open_max_calls = hm]}
    \cup {[NewRow(0) EXCEPT !.state = StateHalfOpen,
                            !.failure_count = DefaultFailureThreshold,
                            !.success_count = 1,
                            !.success_threshold = st, !.half_open_max_calls = hm]:
            x \in IF st > 1 THEN {1} ELSE {}}

\* Start: LoadAll on a shard that holds such a row for ok_tool
InitHalfOpen ==
    /\ now = 0
    /\ \E st \in SuccessThresholds, hm \in HalfOpenMaxCallsSet:
         \E row \in LeftRows(st, hm):
            circuit_breakers = [n \in Tools |-> IF n = "ok_tool" THEN row ELSE NoRow]
    /\ breakers = LoadAll(circuit_breakers)
    /\ hoAdmitted = [n \in Tools |-> 0]
    /\ streak = [n \in Tools |-> 0]
    /\ lastOp = NoOp
    /\ seen = {}
    /\ ServerIdle
    /\ OtherInit

\* calls of ok_tool with the arguments of its first call or with new ones,
\* and a call of bad_tool
HalfOpenLines ==
    {Call("ok_tool", 1), Call("ok_tool", argsUsed["ok_tool"] + 1), Call("bad_tool", 1)}

NextHalfOpen ==
    \/ \E h \in Handlers, r \in HalfOpenLines:
          /\ \A g \in Handlers: pc[g] = "idle"
          /\ r.tool = "ok_tool" => callsRead["ok_tool"] < MaxCalls
          /\ r.tool = "bad_tool" => callsRead["bad_tool"] < MaxOther
          /\ ReadLine(h, r, MaxCalls + MaxOther)
    \/ \E h \in Handlers: Handle(h)
    \/ Advance(MaxNowCircuit)

SpecHalfOpen == InitHalfOpen /\ [][NextHalfOpen]_vars

----------------------------------------------------------------------------
(* The whitelist of ATTACH: ValidateAttachPath and AddAllowedAttachPath *)

Workers == {"w1", "w2", "w3"}

OtherPaths == {OtherDb, "/tmp/third.db"}

\* the tables an operator can have written: one row per worker_name at most,
\* each with a path and allowed 0 or 1
Whitelists ==
    {{AttachRow(w, f[w][1], f[w][2]): w \in DOMAIN f}:
        f \in UNION {[ws -> OtherPaths \X {0, 1}]: ws \in SUBSET Workers}}

\* the rows SELECT allowed FROM allowed_attach_paths WHERE db_path = ? finds
RowsOf(rows, path) == {row \in rows: row.db_path = path}

\* what ValidateAttachPath can answer: QueryRow scans the first row the
\* engine returns, the statement giving no order, and the path is accepted
\* when that row has allowed = 1; without a row it is refused
ValidateAttachPathAnswers(rows, path) ==
    IF RowsOf(rows, path) = {} THEN {FALSE}
    ELSE {row.allowed = 1: row \in RowsOf(rows, path)}

\* Manager.ValidateAttachPath(path), the whole call
ValidateAttachPath(path, ok) ==
    /\ ok \in ValidateAttachPathAnswers(allowed_attach_paths, path)
    /\ validated' = [path |-> path, ok |-> ok,
                     allowing |-> path \in AllowedPaths, called |-> TRUE]
    /\ UNCHANGED <<attachVars, serverVars, breakerVars, registryVars, shutdownVars,
                   retryVars, sendVars, bootVars, scanVars, pillVars, lateVars>>

\* Manager.AddAllowedAttachPath: INSERT OR REPLACE, which replaces the row of
\* the worker if there is one
AddAllowedAttachPath(workerName, dbPath) ==
    /\ allowed_attach_paths' =
          {row \in allowed_attach_paths: row.worker_name # workerName}
            \cup {AttachRow(workerName, dbPath, 1)}
    /\ UNCHANGED <<attached, validated, serverVars, breakerVars, registryVars,
                   shutdownVars, retryVars, sendVars, bootVars, scanVars, pillVars, lateVars>>

InitValidate ==
    /\ CoreIdle
    /\ RegistryInit(StockDefs, StockImpls)
    /\ \E rows \in Whitelists: AttachInit(rows)
    /\ ShutdownInit
    /\ RetryInit({})
    /\ MoreInit

NextValidate ==
    \/ \E path \in OtherPaths, ok \in BOOLEAN: ValidateAttachPath(path, ok)
    \/ \E w \in Workers, path \in OtherPaths: AddAllowedAttachPath(w, path)

SpecValidate == InitValidate /\ [][NextValidate]_vars

----------------------------------------------------------------------------
(* One tool from its rows of tool_implementations to the return of          *)
(* executeTool: loadSteps, then the loop over tool.Steps                    *)

\* the steps a row may hold: sql and validate steps that succeed or fail,
\* attach, transform, and a step_type executeTool does not know
StepKinds ==
    {SqlStep(SelectOne), SqlStep(SelectMissing),
     [step_type |-> "validate", sql_template |-> SelectOne],
     [step_type |-> "validate", sql_template |-> SelectMissing],
     AttachStep,
     [step_type |-> "transform", sql_template |-> SelectOne],
     [step_type |-> "index", sql_template |-> SelectOne]}

\* a row of tool_implementations: UNIQUE(tool_name, step_order)
StepRow(order, step) == [step_order |-> order, step |-> step]

\* the rows of one tool in the order of their id, that is as inserted
StepTables ==
    {rows \in UNION {[1..k -> {StepRow(o, st): o \in 1..MaxOrder, st \in StepKinds}]:
                        k \in 0..MaxOrder}:
        \A i, j \in DOMAIN rows: i # j => rows[i].step_order # rows[j].step_order}

RECURSIVE loadSteps(_)

\* loadSteps without its ORDER BY: the rows as the table holds them
loadStepsById(rows) == rows

\* Manager.loadSteps: SELECT ... WHERE tool_name = ? ORDER BY step_order
loadSteps(rows) ==
    IF rows = <<>> THEN <<>>
    ELSE LET i == CHOOSE i \in DOMAIN rows:
                     \A j \in DOMAIN rows: rows[i].step_order <= rows[j].step_order
         IN <<rows[i]>> \o loadSteps([k \in 1..(Len(rows) - 1) |->
                                         IF k < i THEN rows[k] ELSE rows[k + 1]])

\* reload: the steps of the tool are loaded
RunLoad ==
    /\ toolRun.pc = "table"
    /\ toolRun' = [toolRun EXCEPT !.pc = "call", !.steps = loadSteps(toolRun.rows)]
    /\ UNCHANGED <<earlyVars, subst, migr, latencies, beat>>

\* executeTool on a tool without steps
RunNoSteps ==
    /\ toolRun.pc = "call"
    /\ toolRun.steps = <<>>
    /\ toolRun.executed = <<>>
    /\ toolRun' = [toolRun EXCEPT !.pc = "returned",
                                  !.last = [order |-> 0, value |-> "no steps defined"]]
    /\ UNCHANGED <<earlyVars, subst, migr, latencies, beat>>

\* executeTool: one turn of the loop over tool.Steps; an error returns at
\* once, the last turn returns lastResult
RunStep ==
    /\ toolRun.pc = "call"
    /\ toolRun.steps # <<>>
    /\ LET row == Head(toolRun.steps)
           r == executeStep(row.step)
       IN toolRun' = [toolRun EXCEPT
                        !.executed = Append(@, row.step_order),
                        !.last = [order |-> row.step_order, value |-> r.value],
                        !.steps = Tail(@),
                        !.ok = r.ok,
                        !.pc = IF r.ok /\ Tail(toolRun.steps) # <<>> THEN "call"
                               ELSE "returned"]
    /\ UNCHANGED <<earlyVars, subst, migr, latencies, beat>>

InitSteps ==
    /\ CoreIdle
    /\ RegistryInit(StockDefs, StockImpls)
    /\ AttachInit({})
    /\ ShutdownInit
    /\ RetryInit({})
    /\ SendInit /\ BootInit /\ ScanInit /\ ValidateInit /\ PillInit
    /\ SubstInit /\ MigrInit /\ LatencyInit /\ BeatInit
    /\ \E rows \in StepTables: toolRun = [NoRun EXCEPT !.pc = "table", !.rows = rows]

NextSteps == RunLoad \/ RunNoSteps \/ RunStep

SpecSteps == InitSteps /\ [][NextSteps]_vars

----------------------------------------------------------------------------
(* A breaker made by Manager.Get, then called in any order: an outcome may  *)
(* be recorded in any state, whatever the state that admitted the call      *)

\* Manager.Get on a name without breaker: the breaker with the default
\* thresholds, and its row
Get(n) ==
    /\ breakers[n] = NoBreaker
    /\ breakers' = GetBreakers(breakers, n, now)
    /\ circuit_breakers' = GetRows(circuit_breakers, breakers, n, now)
    /\ UNCHANGED <<now, hoAdmitted, streak, lastOp, seen, serverVars, otherVars>>

NextGet ==
    \/ Get("bad_tool")
    \/ \E n \in Tools: CanExecute(n)
    \/ \E n \in Tools: RecordSuccess(n)
    \/ \E n \in Tools: RecordFailure(n)
    \/ \E n \in Tools: Reset(n)
    \/ Tick

SpecGet == InitServer /\ [][NextGet]_vars

----------------------------------------------------------------------------
(* substituteParams.  A string is a sequence of symbols: a placeholder, a   *)
(* JavaScript marker and a run of 200 plain characters are one symbol each, *)
(* every other symbol is one character.                                     *)

Keys == {"a", "b"}

\* "{{" + key + "}}"
PlaceholderOf == [a |-> "{{a}}", b |-> "{{b}}"]

Placeholders == {PlaceholderOf[k]: k \in Keys}

\* one of the jsIndicators
Marker == "expression"

\* 200 characters without marker or placeholder
Run200 == "<200 characters>"

\* the characters a symbol stands for
SymLen(sym) ==
    CASE sym = Marker -> 10
      [] sym = Run200 -> 200
      [] sym \in Placeholders -> 5
      [] OTHER -> 1

RECURSIVE StrLen(_)
StrLen(str) == IF str = <<>> THEN 0 ELSE SymLen(Head(str)) + StrLen(Tail(str))

\* strings.Index(str, sym), counted in symbols from 1; 0 when absent
Index(str, sym) ==
    IF \E i \in DOMAIN str: str[i] = sym
    THEN CHOOSE i \in DOMAIN str: str[i] = sym /\ \A j \in 1..(i - 1): str[j] # sym
    ELSE 0

\* the lookback of isInJavaScriptContext
Lookback == 200

\* a marker lies whole within the Lookback characters before position i
MarkerBefore(str, i) ==
    \E j \in 1..(i - 1):
        str[j] = Marker /\ StrLen(SubSeq(str, j, i - 1)) <= Lookback

\* isInJavaScriptContext: the context of the first occurrence of the placeholder
isInJavaScriptContext(template, placeholder) ==
    LET idx == Index(template, placeholder)
    IN idx # 0 /\ MarkerBefore(template, idx)

\* escapeJSONValue: backslash and double quote get a backslash
RECURSIVE escapeJSONValue(_)
escapeJSONValue(value) ==
    IF value = <<>> THEN <<>>
    ELSE (IF Head(value) \in {"\\", "\""} THEN <<"\\", Head(value)>> ELSE <<Head(value)>>)
            \o escapeJSONValue(Tail(value))

\* sanitizeSQLValue: a single quote is doubled
RECURSIVE sanitizeSQLValue(_)
sanitizeSQLValue(value) ==
    IF value = <<>> THEN <<>>
    ELSE (IF Head(value) = "'" THEN <<"'", "'">> ELSE <<Head(value)>>)
            \o sanitizeSQLValue(Tail(value))

\* strings.ReplaceAll(str, placeholder, value)
RECURSIVE ReplaceAll(_, _, _)
ReplaceAll(str, placeholder, value) ==
    IF str = <<>> THEN <<>>
    ELSE (IF Head(str) = placeholder THEN value ELSE <<Head(str)>>)
            \o ReplaceAll(Tail(str), placeholder, value)

\* substituteParams, one turn of the loop over args
substituteKey(result, key, value) ==
    LET placeholder == PlaceholderOf[key]
        strValue == IF isInJavaScriptContext(result, placeholder)
                    THEN escapeJSONValue(value) ELSE value
    IN ReplaceAll(result, placeholder, sanitizeSQLValue(strValue))

\* substituteParams, the loop over args taken in the given order
RECURSIVE substituteLoop(_, _, _)
substituteLoop(result, args, order) ==
    IF order = <<>> THEN result
    ELSE substituteLoop(substituteKey(result, Head(order), args[Head(order)]),
                        args, Tail(order))

\* substituteParams, the last loop: what is left between {{ and }} is removed
RECURSIVE removePlaceholders(_)
removePlaceholders(str) ==
    IF str = <<>> THEN <<>>
    ELSE (IF Head(str) \in Placeholders THEN <<>> ELSE <<Head(str)>>)
            \o removePlaceholders(Tail(str))

\* substituteParams(template, args), range over the map giving the keys in order
substituteParams(template, args, order) ==
    removePlaceholders(substituteLoop(template, args, order))

\* the orders in which range may give the keys of a map
Orders(keys) ==
    {o \in [1..Cardinality(keys) -> keys]: \A i, j \in DOMAIN o: i # j => o[i] # o[j]}

\* argument values: plain text, quotes, and the text of a placeholder
ArgValues == {<<"x">>, <<"'">>, <<"\"">>, <<"{{b}}">>}

ArgMaps == UNION {[ks -> ArgValues]: ks \in SUBSET Keys}

\* sql_template contents: a placeholder once, with and without marker; the
\* same placeholder twice in two contexts; two placeholders
Templates ==
    {<<"'", "{{a}}", "'">>,
     <<Marker, "'", "{{a}}", "'">>,
     <<"'", "{{a}}", "'", Marker, "'", "{{a}}", "'">>,
     <<Marker, "'", "{{a}}", "'", Run200, "'", "{{a}}", "'">>,
     <<"'", "{{a}}", "'", "'", "{{b}}", "'">>,
     <<Marker, "'", "{{b}}", "'", Run200, "'", "{{a}}", "'">>}

\* executeTool: sql := s.substituteParams(step.SQLTemplate, args)
Substitute(template, args, order) ==
    /\ ~subst.called
    /\ subst' = [called |-> TRUE, template |-> template, args |-> args, order |-> order,
                 result |-> substituteParams(template, args, order)]
    /\ UNCHANGED <<earlyVars, toolRun, migr, latencies, beat>>

\* the record of the call is dropped
Forget ==
    /\ subst.called
    /\ subst' = NoSubst
    /\ UNCHANGED <<earlyVars, toolRun, migr, latencies, beat>>

NextSubst ==
    \/ \E template \in Templates, args \in ArgMaps:
          \E order \in Orders(DOMAIN args): Substitute(template, args, order)
    \/ Forget

SpecSubst == InitServer /\ [][NextSubst]_vars

----------------------------------------------------------------------------
(* applyMigrations over several starts of the server, for one shard.  The   *)
(* migration files are 001_, 002_, ... and file i has version i.            *)

\* the migration directory of the shard is given its files before the first start
InstallMigrations(n) ==
    /\ migr.pc = "down" /\ migr.starts = 0 /\ migr.files = 0
    /\ migr' = [migr EXCEPT !.files = n, !.runs = [i \in 1..n |-> 0]]
    /\ UNCHANGED <<earlyVars, toolRun, subst, latencies, beat>>

\* sort.Strings(migrations): the files in the order of their names
SortedMigrations(n) == [i \in 1..n |-> i]

\* recoverDB: PRAGMA user_version is read; below SchemaVersion applyMigrations
\* is called with it and lists the files
recoverDBStart ==
    /\ migr.pc = "down" /\ migr.files > 0 /\ migr.starts < MaxStarts
    /\ migr' = IF migr.user_version < SchemaVersion
               THEN [migr EXCEPT !.pc = "migrating", !.starts = @ + 1,
                                 !.currentVersion = migr.user_version,
                                 !.todo = SortedMigrations(migr.files)]
               ELSE [migr EXCEPT !.pc = "up", !.starts = @ + 1]
    /\ UNCHANGED <<earlyVars, toolRun, subst, latencies, beat>>

\* applyMigrations, one turn of the loop: a file above currentVersion is
\* executed; when db.Exec fails the error is returned and the start fails
applyMigration(execOk) ==
    /\ migr.pc = "migrating" /\ migr.todo # <<>>
    /\ LET mig == Head(migr.todo)
       IN IF mig > migr.currentVersion
          THEN migr' = [migr EXCEPT !.runs[mig] = @ + 1,
                                    !.todo = IF execOk THEN Tail(@) ELSE <<>>,
                                    !.pc = IF execOk THEN "migrating" ELSE "down",
                                    !.failed = @ \/ ~execOk,
                                    !.applied = IF execOk THEN @ \cup {mig} ELSE @,
                                    !.again = IF mig \in migr.applied
                                              THEN @ \cup {mig} ELSE @]
          ELSE /\ execOk
               /\ migr' = [migr EXCEPT !.todo = Tail(@)]
    /\ UNCHANGED <<earlyVars, toolRun, subst, latencies, beat>>

\* applyMigrations, after the loop: PRAGMA user_version = SchemaVersion
setUserVersion ==
    /\ migr.pc = "migrating" /\ migr.todo = <<>>
    /\ migr' = [migr EXCEPT !.user_version = SchemaVersion, !.pc = "up"]
    /\ UNCHANGED <<earlyVars, toolRun, subst, latencies, beat>>

\* the server stops
stopServer ==
    /\ migr.pc = "up"
    /\ migr' = [migr EXCEPT !.pc = "down"]
    /\ UNCHANGED <<earlyVars, toolRun, subst, latencies, beat>>

NextMigrate ==
    \/ \E n \in 1..MaxFiles: InstallMigrations(n)
    \/ recoverDBStart
    \/ \E execOk \in BOOLEAN: applyMigration(execOk)
    \/ setUserVersion
    \/ stopServer

SpecMigrate == InitServer /\ [][NextMigrate]_vars

----------------------------------------------------------------------------
(* Collector.latencies.  RecordLatency and collectSystemMetrics hold c.mu,  *)
(* so each is one step.  The latency recorded is the number of the call     *)
(* since the last collection, which tells the entries apart.  Calls are     *)
(* also taken Burst at a time, which keeps the behaviours short.            *)

maxLatencies == 10000

\* copy(dst, src) on one slice: the entries of src are moved to the front
copy(buf, from) ==
    [i \in 1..Len(buf) |-> IF i <= Len(buf) - from THEN buf[i + from] ELSE buf[i]]

\* as RecordLatencyBuf, without the copy: the slice is cut to its first half
RecordLatencyNoCopy(buf, latencyMs) ==
    Append(IF Len(buf) >= maxLatencies
           THEN SubSeq(buf, 1, maxLatencies \div 2)
           ELSE buf, latencyMs)

\* RecordLatency: the slice it leaves
RecordLatencyBuf(buf, latencyMs) ==
    Append(IF Len(buf) >= maxLatencies
           THEN SubSeq(copy(buf, maxLatencies \div 2), 1, maxLatencies \div 2)
           ELSE buf, latencyMs)

RecordLatency ==
    /\ latencies.recorded < MaxRecords
    /\ latencies' = [buf |-> RecordLatencyBuf(latencies.buf, latencies.recorded + 1),
                     recorded |-> latencies.recorded + 1]
    /\ UNCHANGED <<earlyVars, toolRun, subst, migr, beat>>

\* the slice after n calls of RecordLatency, the first with latency first,
\* none of which finds the slice full: each call appends and does no more
RecordLatencyTimes(buf, first, n) == buf \o [i \in 1..n |-> first + i - 1]

\* Burst calls of RecordLatency one after the other, each under c.mu, on a
\* slice with room for them
RecordLatencies ==
    /\ latencies.recorded % Burst = 0
    /\ Len(latencies.buf) + Burst <= maxLatencies
    /\ latencies' = [buf |-> RecordLatencyTimes(latencies.buf, latencies.recorded + 1, Burst),
                     recorded |-> latencies.recorded + Burst]
    /\ UNCHANGED <<earlyVars, toolRun, subst, migr, beat>>

\* collectSystemMetrics: c.latencies = c.latencies[:0]
collectSystemMetrics ==
    /\ latencies.recorded > 0
    /\ latencies' = [buf |-> <<>>, recorded |-> 0]
    /\ UNCHANGED <<earlyVars, toolRun, subst, migr, beat>>

NextLatency == RecordLatency \/ RecordLatencies \/ collectSystemMetrics

SpecLatency == InitServer /\ [][NextLatency]_vars

----------------------------------------------------------------------------
(* The heartbeat row.  A caller of UpdateHeartbeat loads the two counters,  *)
(* then the INSERT OR REPLACE writes what was loaded: two steps.            *)

\* UpdateHeartbeat: the row INSERT OR REPLACE leaves
HeartbeatRow(status, requestsProcessed_, requestsFailed_) ==
    [requests_processed |-> requestsProcessed_, requests_failed |-> requestsFailed_,
     status |-> status]

\* Start: the first heartbeat is written, then heartbeatLoop and readLoop begin
StartHeartbeat ==
    /\ ~beat.started
    /\ beat' = [beat EXCEPT !.started = TRUE,
                            !.row = HeartbeatRow("running", beat.processed, beat.failed)]
    /\ UNCHANGED <<earlyVars, toolRun, subst, migr, latencies>>

\* handleRequest: requestsFailed is added to on an error, requestsProcessed
\* otherwise
CountRequest(isError) ==
    /\ beat.started
    /\ beat.processed + beat.failed < MaxCounted
    /\ beat' = IF isError THEN [beat EXCEPT !.failed = @ + 1]
               ELSE [beat EXCEPT !.processed = @ + 1]
    /\ UNCHANGED <<earlyVars, toolRun, subst, migr, latencies>>

\* heartbeatLoop, case <-ticker.C: the counters are loaded
heartbeatLoad ==
    /\ beat.started /\ beat.loop.pc = "idle" /\ beat.ticks < MaxTicks
    /\ beat' = [beat EXCEPT !.loop = [pc |-> "loaded", processed |-> beat.processed,
                                      failed |-> beat.failed],
                            !.ticks = @ + 1]
    /\ UNCHANGED <<earlyVars, toolRun, subst, migr, latencies>>

\* heartbeatLoop: UpdateHeartbeat writes what was loaded
heartbeatWrite ==
    /\ beat.loop.pc = "loaded"
    /\ beat' = [beat EXCEPT !.row = HeartbeatRow("running", beat.loop.processed,
                                                    beat.loop.failed),
                            !.loop = NoBeat]
    /\ UNCHANGED <<earlyVars, toolRun, subst, migr, latencies>>

\* Shutdown: the counters are loaded
shutdownLoad ==
    /\ beat.started /\ beat.shut.pc = "idle"
    /\ beat' = [beat EXCEPT !.shut = [pc |-> "loaded", processed |-> beat.processed,
                                      failed |-> beat.failed]]
    /\ UNCHANGED <<earlyVars, toolRun, subst, migr, latencies>>

\* Shutdown: UpdateHeartbeat writes what was loaded
shutdownWrite ==
    /\ beat.shut.pc = "loaded"
    /\ beat' = [beat EXCEPT !.row = HeartbeatRow("shutting_down", beat.shut.processed,
                                                    beat.shut.failed),
                            !.shut = [NoBeat EXCEPT !.pc = "done"]]
    /\ UNCHANGED <<earlyVars, toolRun, subst, migr, latencies>>

NextBeat ==
    \/ StartHeartbeat
    \/ \E isError \in BOOLEAN: CountRequest(isError)
    \/ heartbeatLoad
    \/ heartbeatWrite
    \/ shutdownLoad
    \/ shutdownWrite

SpecBeat == InitServer /\ [][NextBeat]_vars

----------------------------------------------------------------------------
(* Properties of the breaker *)

CycleChanges ==
    {<<StateClosed, StateOpen>>, <<StateOpen, StateHalfOpen>>,
     <<StateHalfOpen, StateClosed>>, <<StateHalfOpen, StateOpen>>}

Loaded == {n \in Tools: breakers[n] # NoBreaker}

\* C5, as claimed: over any sequence of CanExecute, RecordSuccess,
\* RecordFailure and Reset calls a breaker's state changes only closed->open,
\* open->half_open, half_open->closed or half_open->open.
C5_OnlyCycleChanges ==
    [][\A n \in Loaded:
          breakers'[n].state # breakers[n].state
            => <<breakers[n].state, breakers'[n].state>> \in CycleChanges]_vars

\* C5, amended: a breaker's state changes only along the cycle, or from open
\* to closed, and that one is made by Reset alone.
C5_CycleOrReset ==
    [][\A n \in Loaded:
          breakers'[n].state # breakers[n].state
            => \/ <<breakers[n].state, breakers'[n].state>> \in CycleChanges
               \/ /\ breakers[n].state = StateOpen
                  /\ breakers'[n].state = StateClosed
                  /\ lastOp'.op = "Reset"
                  /\ lastOp'.name = n]_vars

\* every change of the cycle, and Reset's open->closed, has been made
C5_Witness == seen = CycleChanges \cup {<<StateOpen, StateClosed>>}

C7_OpenUntilTimeout ==
    (lastOp.op = "CanExecute" /\ lastOp.before.state = StateOpen)
      => LET b == lastOp.before
             elapsed == lastOp.at - b.lastStateChange
             after == breakers[lastOp.name]
         IN /\ elapsed < b.timeoutSeconds
                 => ~lastOp.admitted /\ after.state = StateOpen
            /\ elapsed >= b.timeoutSeconds
                 => /\ lastOp.admitted
                    /\ after.state = StateHalfOpen
                    /\ after.successCount = 0

\* C8: in closed each recorded failure adds one to the failure count and each
\* recorded success sets it to 0, and a step takes the breaker from closed to
\* open exactly when it records the failure that makes failure_threshold
\* failures with no success between them.
C8_FailureCounting ==
    /\ [](\A n \in Loaded:
            breakers[n].state = StateClosed => breakers[n].failureCount = streak[n])
    /\ [][\A n \in Loaded:
            (breakers[n].state = StateClosed /\ breakers'[n].state = StateOpen)
              <=> /\ breakers[n].state = StateClosed
                  /\ streak'[n] = streak[n] + 1
                  /\ streak'[n] = breakers[n].failureThreshold]_vars

\* the fifth failure in a row has opened a breaker with the default threshold
\* that had recorded a success in closed before
C8_Witness ==
    /\ lastOp.op = "RecordFailure"
    /\ lastOp.before.state = StateClosed
    /\ lastOp.before.failureThreshold = DefaultFailureThreshold
    /\ breakers[lastOp.name].state = StateOpen
    /\ streak[lastOp.name] = DefaultFailureThreshold

\* C9: the success count of a half-open breaker never exceeds
\* success_threshold after an operation has returned, and the success that
\* reaches success_threshold closes the breaker and clears both counters.
C9_SuccessCounting ==
    /\ \A n \in Loaded:
          breakers[n].state = StateHalfOpen
            => breakers[n].successCount <= breakers[n].successThreshold
    /\ (/\ lastOp.op = "RecordSuccess"
        /\ lastOp.before.state = StateHalfOpen
        /\ lastOp.before.successCount + 1 = lastOp.before.successThreshold)
         => /\ breakers[lastOp.name].state = StateClosed
            /\ breakers[lastOp.name].failureCount = 0
            /\ breakers[lastOp.name].successCount = 0

\* the third success has closed a half-open breaker with the default
\* thresholds whose failure count was 5
C9_Witness ==
    /\ lastOp.op = "RecordSuccess"
    /\ lastOp.before.state = StateHalfOpen
    /\ lastOp.before.successThreshold = DefaultSuccessThreshold
    /\ lastOp.before.successCount = DefaultSuccessThreshold - 1
    /\ lastOp.before.failureCount = DefaultFailureThreshold
    /\ breakers[lastOp.name].state = StateClosed

----------------------------------------------------------------------------
(* Properties of the dispatcher *)

InFlight == {h \in Handlers: req[h] # NoReq}

\* C1: whatever the number of concurrent submissions of a request,
\* processed_log holds at most one row whose hash is its fingerprint.
C1_OneRowPerFingerprint ==
    \A f \in DOMAIN execCount:
        Cardinality({row \in processed_log: row.hash = f}) <= 1

\* two handlers of the same request have both run the tool and both made
\* their insertion, and the ledger holds the row of one of them
C1_Witness ==
    \E i, j \in 1..Len(stdout):
        /\ i # j
        /\ Fp(stdout[i].req) = Fp(stdout[j].req)
        /\ stdout[i].kind = "result" /\ stdout[j].kind = "result"
        /\ stdout[i].req.ran /\ stdout[j].req.ran
        /\ \E row \in processed_log: row.hash = Fp(stdout[i].req)

\* C2, as claimed: for a fingerprint of a method outside the whitelist the
\* tool is executed for at most one of the requests that carry it, however
\* their handlers interleave.
C2_AtMostOneExecution ==
    \A f \in DOMAIN execCount: f[1] \notin ReadOnlyMethods => execCount[f] <= 1

\* C3: a tools/call read after the result of an identical tools/call was
\* written is answered {cached: true, message: "Request already processed"},
\* whatever its id, and its handler does not run the tool.
C3_ReplayIsCached ==
    /\ \A e \in Responses:
          (e.req.method = "tools/call" /\ e.req.late)
            => /\ e.kind = "cached"
               /\ e.message = "Request already processed"
               /\ ~e.req.ran
    /\ \A h \in InFlight:
          (req[h].method = "tools/call" /\ req[h].late)
            => ~req[h].ran /\ pc[h] \in {"check", "sendCached"}

\* a call of ok_tool read after the result of an identical call, with another
\* id, has been answered from the ledger
C3_Witness ==
    \E e, f \in Responses:
        /\ e.req.method = "tools/call" /\ e.req.tool = "ok_tool"
        /\ e.req.late /\ e.kind = "cached"
        /\ f.kind = "result" /\ Fp(f.req) = Fp(e.req) /\ f.id # e.id

\* C4: a request whose method is initialize, tools/list, resources/list,
\* prompts/list or ping is never answered cached: true, whatever processed_log
\* holds; it is routed on every submission.
C4_ReadOnlyNeverCached ==
    /\ \A e \in Responses: e.req.method \in ReadOnlyMethods => e.kind # "cached"
    /\ \A h \in InFlight: req[h].method \in ReadOnlyMethods => pc[h] # "sendCached"

\* a tools/list whose fingerprint was in processed_log when it was read, left
\* there by an earlier tools/list, has been answered with a fresh result
C4_Witness ==
    \E e, f \in Responses:
        /\ e.req.method = "tools/list" /\ e.req.replay /\ e.kind = "result"
        /\ f.req.method = "tools/list" /\ f.id # e.id
        /\ \E row \in processed_log: row.hash = Fp(e.req) /\ row.request_id = f.id

SixthCall(e) ==
    /\ e.req.method = "tools/call"
    /\ e.req.tool = "bad_tool"
    /\ e.req.nth = DefaultFailureThreshold + 1
    /\ e.req.answered = DefaultFailureThreshold

CircuitOpenError(e) ==
    e.kind = "error" /\ e.code = -32000 /\ e.message = "Circuit breaker open"

----------------------------------------------------------------------------
(* Properties of the tool registry *)

\* the poll loop waits for its next tick with the flag clear
PollAtRest == pollPc = "select" /\ tools_dirty = 0

\* C11, as claimed: every committed statement on tool_definitions reaches the
\* catalog while the poll loop runs, an edit that commits during a reload
\* included: when the poll loop is back at its tick with the flag clear,
\* and so will not reload again, the catalog shows the enabled rows.
C11_EditsReachCatalog ==
    PollAtRest => ListView(catalog) = TableView(tool_definitions)

\* C12: what Manager.List returns, a reload running or not, is the set of
\* enabled definitions as some commit on tool_definitions left it.
C12_ListIsOneCatalog ==
    listed.taken => listed.view \in tableViews

\* a List taken between reload's query and its swap, after an edit, has
\* returned the catalog of before the edit
C12_Witness ==
    /\ listed.taken /\ listed.during
    /\ pollPc = "steps"
    /\ edits > 0
    /\ listed.view # TableView(tool_definitions)
    /\ listed.view # TableView(newTools.defs)
    /\ listed.view \in tableViews

\* C13, as claimed: after createTool has returned success the catalog comes
\* to hold the tool with its first step, however the poll loop interleaves
\* with the two inserts: when the poll loop is back at its tick with the
\* flag clear, the tool is loaded with the steps of tool_implementations.
C13_CreatedToolLoaded ==
    \A n \in Tools:
        (/\ createPc[n] = "created"
         /\ PollAtRest
         /\ n \in EnabledNames(tool_definitions))
          => catalog[n] # NoTool /\ catalog[n].steps = tool_implementations[n]

\* the answer e is to a tools/call read when the catalog held its tool with
\* the single step SELECT 1 AS v
CallOfLoaded(e) == e.req.method = "tools/call" /\ e.req.loaded

\* the call was executed and its answer carries v = 1
ReturnsOne(e) == e.kind = "result" /\ e.req.ran /\ e.req.value = "1"

\* no other request with the fingerprint of e's has been read
Alone(e) ==
    /\ \A f \in Responses: f.id # e.id => Fp(f.req) # Fp(e.req)
    /\ \A h \in Handlers: pc[h] # "idle" => Fp(req[h]) # Fp(e.req)

----------------------------------------------------------------------------
(* Properties of the steps of a tool *)

\* C15, as claimed: no ATTACH made by a tool step succeeds unless
\* allowed_attach_paths holds the path with allowed = 1.
C15_AttachNeedsWhitelist ==
    attached \subseteq AllowedPaths

----------------------------------------------------------------------------
(* Properties of Shutdown *)

\* C16, as claimed: once Shutdown has completed, heartbeat.status is
\* 'stopped', whatever the heartbeat loop and the handlers did meanwhile.
C16_StoppedAfterShutdown ==
    shutPc = "done" => heartbeat = "stopped"

\* C17, as claimed: after SIGTERM or SIGINT the server eventually
\* terminates (Start returns), even if stdin delivers no line and no EOF.
C17_SignalTerminates ==
    (shutdownChan = "closed") ~> (readPc = "returned")

----------------------------------------------------------------------------
(* Properties of result persistence and of the retry queue *)

\* the tools/call requests a client may send
CallLines == {r \in AllLines: r.method = "tools/call"}

\* C18, as claimed: the tool_results row and the processed_log row of a
\* successful tools/call are committed together: in every state, one that
\* a crash would leave behind included, either both exist or neither does.
C18_ResultAndLedgerTogether ==
    \A r \in CallLines:
        (\E row \in tool_results: row.request_id = Fp(r))
          <=> (\E row \in processed_log: row.hash = Fp(r) /\ row.status = "success")

\* e reports the failure of a tool whose retry_policy is fixed or exponential,
\* and the handler that wrote e has returned
RetryableFailure(e) ==
    /\ \A h \in Handlers: pc[h] # "idle" => req[h].id # e.id
    /\ e.kind = "error"
    /\ e.message = "Tool execution failed"
    /\ catalog[e.req.tool].retryPolicy \in {"fixed", "exponential"}

\* C19, as claimed: once the -32000 failure of a tool with retry_policy
\* fixed or exponential has been returned and its handler is done,
\* retry_queue holds a row for the call with attempt_number 1.
C19_FailureEnqueuesRetry ==
    \A e \in Responses:
        RetryableFailure(e) =>
            \E row \in retry_queue: row.tool_name = e.req.tool /\ row.attempt_number = 1

\* the backoff_seconds of the executions of the job of request id, in order
RECURSIVE BackoffsOf(_, _)
BackoffsOf(log, id) ==
    IF log = <<>> THEN <<>>
    ELSE IF Head(log).request_id = id THEN <<Head(log).backoff>> \o BackoffsOf(Tail(log), id)
    ELSE BackoffsOf(Tail(log), id)

\* C20, as claimed: a job with max_attempts = 3 whose tool always fails is
\* executed by successive sweeps with backoff_seconds 2, 4 and 8; then one
\* dead_letter_queue row carries its error and retry_queue holds no row of
\* the job.
C20_ExhaustedJobLeavesQueue ==
    \A d \in dead_letter_queue:
        /\ BackoffsOf(retryLog, d.request_id) = <<2, 4, 8>>
        /\ \A e \in dead_letter_queue: e.request_id = d.request_id => e = d
        /\ d.error_message = "no such table"
        /\ \A row \in retry_queue: row.request_id # d.request_id

----------------------------------------------------------------------------
(* Properties of the responses *)

\* C21, as claimed: every request whose method is not routed by the switch
\* of handleRequest is answered with error -32601, the first time and every
\* time it is sent again.
C21_UnknownMethodNotFound ==
    \A e \in Responses:
        e.req.method \notin Routed => e.kind = "error" /\ e.code = -32601

ResponsesTo(id) == {i \in 1..Len(stdout): stdout[i].req.id = id}

\* the handler of line id has not returned
Handled(id) == \A h \in Handlers: pc[h] # "idle" => req[h].id # id

\* C23, as claimed: every line taken by the read loop produces exactly one
\* response line: never two, and one when its handler has returned or the
\* process has ended; the response to a line that does not parse is
\* -32700 without id, any other carries the id of its request.
C23_OneResponsePerLine ==
    \A id \in 1..linesRead:
        /\ Cardinality(ResponsesTo(id)) <= 1
        /\ Handled(id) \/ ~Running => Cardinality(ResponsesTo(id)) = 1
        /\ \A i \in ResponsesTo(id):
              IF stdout[i].req.method = Unparsable
              THEN stdout[i].code = -32700 /\ stdout[i].id = 0
              ELSE stdout[i].id = id

----------------------------------------------------------------------------
(* Properties of startup *)

\* C24 (as stated): when the migration of a shard has failed, NewServer does
\* not return a server, so that no request is served; the code warns and
\* returns the server, and this does not hold.
C24_MigrationFailureAborts ==
    boot.migrationFailed # {} => boot.at # "created"

\* the half of C24 the code keeps: startup is never aborted once recovery has
\* begun, whatever checkpoint failed
CheckpointFailureContinues ==
    boot.at = "aborted" => boot.checkpointFailed = {} /\ boot.todo = Shards

----------------------------------------------------------------------------
(* Properties of the scanner *)

\* C25 (as stated): each handler parses exactly the bytes of its own input
\* line, whatever lines the scanner has read since; the slice is not copied,
\* and this does not hold.
C25_HandlerParsesItsLine ==
    \A p \in parsedAs: p.saw = p.line

\* while no line has been read into the slot of a waiting slice, the handler
\* parses its own line
ParsesItsLineUntilReuse ==
    scanned <= MaxSlots => \A p \in parsedAs: p.saw = p.line

----------------------------------------------------------------------------
(* Properties of the two callers of Shutdown *)

\* C26 (as stated): whatever the interleaving of the signal and the poison
\* pill, no caller of Shutdown panics; the second close(shutdownChan) panics,
\* and this does not hold.
C26_ShutdownRunsOnce ==
    panicked = NoPanic

\* with one caller only, Shutdown never panics
OneCallerNoPanic ==
    sigPc = "wait" \/ pillPc # "called" => panicked = NoPanic

----------------------------------------------------------------------------
(* Properties of the order of ledger row and response line *)

\* the ledger holds a row for the request the response line e answers
Recorded(e) == \E row \in processed_log: row.hash = Fp(e.req)

\* C27 (as stated): for every request outside the skip list, the row of
\* processed_log is there when its response line is written, on the success
\* path and on the error path; the error path writes the line first, and
\* this does not hold.
C27_RowBeforeResponse ==
    \A e \in Responses: e.req.method \notin SkipIdempotence => Recorded(e)

\* the success path alone keeps the order
RowBeforeResult ==
    \A e \in Responses:
        e.req.method \notin SkipIdempotence /\ e.kind # "error" => Recorded(e)

----------------------------------------------------------------------------
(* Properties of the breaker and its row *)

\* the row of breaker n holds the state and the counters of the breaker
RowMirrors(n) ==
    /\ circuit_breakers[n].state = breakers[n].state
    /\ circuit_breakers[n].failure_count = breakers[n].failureCount
    /\ circuit_breakers[n].success_count = breakers[n].successCount

\* C28 (as stated): when CanExecute, RecordSuccess, RecordFailure or Reset has
\* returned, the row of the breaker holds the state, failure_count and
\* success_count of the breaker in memory; CanExecute writes no row, and this
\* does not hold.
C28_RowMirrorsBreaker ==
    lastOp.op \in {"CanExecute", "RecordSuccess", "RecordFailure", "Reset"}
        => RowMirrors(lastOp.name)

\* the three methods that end with an UPDATE leave row and breaker equal
RowMirrorsAfterUpdate ==
    lastOp.op \in {"RecordSuccess", "RecordFailure", "Reset"} => RowMirrors(lastOp.name)

----------------------------------------------------------------------------
(* Properties of the half-open breaker *)

\* no handler stands between the CanExecute that admitted its call of tool n
\* and the RecordSuccess or RecordFailure of its outcome
OutcomesRecorded(n) ==
    \A h \in Handlers:
        pc[h] \in {"exec", "recordSuccess", "recordFailure"} => req[h].tool # n

\* breaker n is half-open, rejects every call, and waits for no outcome
Stuck(n) ==
    /\ breakers[n] # NoBreaker
    /\ breakers[n].state = StateHalfOpen
    /\ HalfOpenFull(breakers[n])
    /\ OutcomesRecorded(n)

\* C29 (as stated): whatever its success_threshold and half_open_max_calls, a
\* half-open breaker whose admitted calls have all had their outcome recorded
\* is not left rejecting calls: it has closed or opened, or still admits a
\* call.  With a threshold above the calls it admits, this does not hold.
C29_HalfOpenLeaves ==
    \A n \in Tools: ~Stuck(n)

\* a breaker in that state stays in it whatever is called and however long
\* one waits
StuckForever ==
    [][\A n \in Tools: Stuck(n) => Stuck(n)' /\ breakers'[n] = breakers[n]]_vars

\* with the thresholds of Manager.Get the state is never reached
DefaultsNeverStuck ==
    \A n \in Tools:
        /\ breakers[n] # NoBreaker
        /\ breakers[n].successThreshold <= breakers[n].halfOpenMaxCalls
        => ~Stuck(n)

----------------------------------------------------------------------------
(* Properties of the whitelist *)

\* C30 (as stated): ValidateAttachPath accepts a path exactly when some row
\* of the table has that path and allowed = 1, also when several rows carry
\* the path with different values of allowed; the answer is that of one row,
\* and this does not hold.
C30_AcceptsIffSomeRowAllows ==
    validated.called => (validated.ok <=> validated.allowing)

\* a path no row allows is never accepted
AcceptedIsAllowed ==
    validated.called /\ validated.ok => validated.allowing

----------------------------------------------------------------------------
(* Properties of executeTool *)

\* the step_order values of the rows of the tool
OrdersOf(rows) == {rows[i].step_order: i \in DOMAIN rows}

\* the step of the row with that step_order
StepOf(rows, order) ==
    (CHOOSE row \in {rows[i]: i \in DOMAIN rows}: row.step_order = order).step

\* the steps run so far are the first ones in ascending step_order
RanInOrder ==
    \A i \in DOMAIN toolRun.executed:
        Cardinality({o \in OrdersOf(toolRun.rows): o < toolRun.executed[i]}) = i - 1

\* every step run before the last one run has succeeded
RanWhileOk ==
    \A i \in DOMAIN toolRun.executed:
        i < Len(toolRun.executed) => executeStep(StepOf(toolRun.rows, toolRun.executed[i])).ok

\* what executeTool returned: the error of the last step run, or, every step
\* having run, the value of the step with the largest step_order
ReturnedLast ==
    toolRun.pc = "returned" /\ toolRun.rows # <<>> =>
        LET lastRun == toolRun.executed[Len(toolRun.executed)]
            r == executeStep(StepOf(toolRun.rows, lastRun))
        IN /\ toolRun.ok = r.ok
           /\ toolRun.last = [order |-> lastRun, value |-> r.value]
           /\ toolRun.ok => /\ Len(toolRun.executed) = Len(toolRun.rows)
                            /\ \A o \in OrdersOf(toolRun.rows): o <= lastRun

\* C31: executeTool runs the steps of a tool in ascending step_order, the
\* first step that fails ends the run so that no later step is executed, and
\* when all steps succeed the value returned is that of the last step.
C31_StepsInOrderUntilFailure ==
    RanInOrder /\ RanWhileOk /\ ReturnedLast

\* a tool of three steps inserted out of order whose second step failed
C31_Witness ==
    /\ toolRun.pc = "returned"
    /\ ~toolRun.ok
    /\ Len(toolRun.rows) = 3
    /\ toolRun.rows[1].step_order = 3
    /\ toolRun.executed = <<1, 2>>

----------------------------------------------------------------------------
(* Properties of the counters of a breaker *)

\* the counters of breaker n agree with its state, in memory and in its row
CountersFit(n) ==
    /\ breakers[n].state = StateClosed
          => breakers[n].failureCount < breakers[n].failureThreshold
    /\ breakers[n].state # StateHalfOpen => breakers[n].successCount = 0
    /\ circuit_breakers[n].state = StateClosed
          => circuit_breakers[n].failure_count < circuit_breakers[n].failure_threshold
    /\ circuit_breakers[n].state # StateHalfOpen => circuit_breakers[n].success_count = 0

\* C32: a breaker made with the default thresholds that is closed has fewer
\* failures counted than its threshold, and one that is not half-open has no
\* success counted, also when an outcome is recorded after the breaker has
\* left the state in which the call was admitted.
C32_CountersFitState ==
    \A n \in Tools: breakers[n] # NoBreaker => CountersFit(n)

\* a failure has just been recorded on a breaker that had reopened since the
\* call was admitted, and that had been half-open before
C32_Witness ==
    /\ lastOp.op = "RecordFailure"
    /\ lastOp.before.state = StateOpen
    /\ <<StateHalfOpen, StateOpen>> \in seen
    /\ breakers[lastOp.name].failureThreshold = DefaultFailureThreshold

----------------------------------------------------------------------------
(* Properties of exhausted retry rows *)

\* the dead_letter_queue rows made for a retry row
DeadLettersOf(row) == {d \in dead_letter_queue: d.request_id = row.request_id}

\* C33 (as stated): every retry_queue row whose status is exhausted has
\* exactly one dead_letter_queue row, also when its tool is not in the
\* catalog when the sweep reaches it; that row gets none, and this does not
\* hold.
C33_ExhaustedHasDeadLetter ==
    \A row \in retry_queue:
        row.status = "exhausted" => Cardinality(DeadLettersOf(row)) = 1

\* a row exhausted by the failures of a tool of the catalog has its one row
ExhaustedByFailureHasDeadLetter ==
    \A row \in retry_queue:
        row.status = "exhausted" /\ row.last_error # "Tool not found"
            => Cardinality(DeadLettersOf(row)) = 1

----------------------------------------------------------------------------
(* Properties of the two result hashes *)

\* C34 (as stated): the result_hash of the processed_log row of a successful
\* SQL-backed tools/call is the hash of the tool_results row stored for the
\* call; the two hashes are taken of different serializations, and this does
\* not hold.
C34_LedgerHashIsResultKey ==
    \A l \in processed_log, t \in tool_results:
        l.status = "success" /\ t.request_id = l.hash => l.result_hash = t.hash

\* the tool_results row of a call carries the fingerprint its ledger row has
ResultRowNamesRequest ==
    \A t \in tool_results: \E h \in Handlers \cup {0}:
        \/ \E l \in processed_log: l.hash = t.request_id
        \/ h # 0 /\ pc[h] = "markSuccess" /\ Fp(req[h]) = t.request_id

----------------------------------------------------------------------------
(* Properties of substituteParams *)

\* the value of an argument as an occurrence at position i of the template
\* is to receive it: JSON escaping then SQL escaping after a marker, SQL
\* escaping alone otherwise
EscapedAt(template, i, value) ==
    IF MarkerBefore(template, i) THEN sanitizeSQLValue(escapeJSONValue(value))
    ELSE sanitizeSQLValue(value)

\* the template with each occurrence replaced according to its own context
RECURSIVE PerOccurrence(_, _, _)
PerOccurrence(template, args, i) ==
    IF i > Len(template) THEN <<>>
    ELSE (IF template[i] \in Placeholders
          THEN LET k == CHOOSE k \in Keys: PlaceholderOf[k] = template[i]
               IN IF k \in DOMAIN args THEN EscapedAt(template, i, args[k]) ELSE <<>>
          ELSE <<template[i]>>)
            \o PerOccurrence(template, args, i + 1)

\* no value holds the text of a placeholder
PlainValues(args) ==
    \A k \in DOMAIN args: \A i \in DOMAIN args[k]: args[k][i] \notin Placeholders

\* C35 (as stated): each occurrence of a placeholder is escaped according to
\* its own context; the context of the first occurrence decides for all of
\* them, and this does not hold.
C35_EscapedPerOccurrence ==
    subst.called /\ PlainValues(subst.args)
        => subst.result = PerOccurrence(subst.template, subst.args, 1)

\* each placeholder occurs once in the template
OccursOnce(template) ==
    \A i, j \in DOMAIN template:
        template[i] \in Placeholders /\ template[i] = template[j] => i = j

\* a placeholder that occurs once is escaped according to its context
EscapedWhenOnce ==
    subst.called /\ PlainValues(subst.args) /\ OccursOnce(subst.template)
        => subst.result = PerOccurrence(subst.template, subst.args, 1)

\* C36 (as stated): for a template and an argument map, substituteParams
\* returns the same string in whatever order the arguments are taken, also
\* when a value holds the text of another placeholder; the value put in
\* first is substituted again, and this does not hold.
C36_OrderIndependent ==
    subst.called =>
        \A order \in Orders(DOMAIN subst.args):
            substituteParams(subst.template, subst.args, order) = subst.result

\* with values that hold no placeholder text the order does not matter
OrderIndependentWhenPlain ==
    subst.called /\ PlainValues(subst.args) =>
        \A order \in Orders(DOMAIN subst.args):
            substituteParams(subst.template, subst.args, order) = subst.result

----------------------------------------------------------------------------
(* Properties of the retry counters *)

RECURSIVE Pow2(_)
Pow2(n) == IF n <= 0 THEN 1 ELSE 2 * Pow2(n - 1)

MaxOf(a, b) == IF a >= b THEN a ELSE b

\* C37: in every retry_queue row made by AddRetryJob and changed by
\* ProcessRetryQueue alone, backoff_seconds is 2 to the power attempt_number
\* and attempt_number lies between 1 and the larger of 1 and max_attempts.
C37_BackoffIsPowerOfAttempt ==
    \A row \in retry_queue:
        /\ row.backoff_seconds = Pow2(row.attempt_number)
        /\ 1 <= row.attempt_number
        /\ row.attempt_number <= MaxOf(1, row.max_attempts)

\* a row has been retried up to its last attempt and is exhausted
C37_Witness ==
    \E row \in retry_queue:
        /\ row.status = "exhausted"
        /\ row.attempt_number = 3
        /\ row.backoff_seconds = 8

----------------------------------------------------------------------------
(* Properties of the migrations *)

\* C38 (as stated): over any number of starts each migration file of a shard
\* that has been executed with success is executed once, also when a later migration fails and startup
\* is run again; user_version is written after the last file only, so the
\* next start runs the earlier files again, and this does not hold.
C38_MigrationRunsOnce == migr.again = {}

\* while no migration has failed each file has been executed at most once
RunsOnceWhenNoneFails ==
    ~migr.failed => \A f \in DOMAIN migr.runs: migr.runs[f] <= 1

----------------------------------------------------------------------------
(* Properties of the latency buffer *)

\* RecordLatency acts once on a buffer that holds maxLatencies entries
RecordsOnFull ==
    /\ Len(latencies.buf) >= maxLatencies
    /\ latencies'.recorded = latencies.recorded + 1

\* C39: the latency buffer never holds more than 10 000 entries, and an
\* append to a full buffer leaves the newest 5 000 of its entries in their
\* order, followed by the new entry.
C39_LatenciesBounded ==
    /\ [](Len(latencies.buf) <= maxLatencies)
    /\ [][RecordsOnFull =>
            latencies'.buf =
                Append(SubSeq(latencies.buf, Len(latencies.buf) - 5000 + 1,
                              Len(latencies.buf)), latencies'.recorded)]_vars

\* the buffer was full and an entry has been appended to it
C39_Witness ==
    /\ latencies.recorded = maxLatencies + 1
    /\ Len(latencies.buf) = 5001

----------------------------------------------------------------------------
(* Properties of the heartbeat row *)

\* C40 (as stated): requests_processed and requests_failed of the heartbeat
\* row never decrease, however the write of the heartbeat loop interleaves
\* with those of Start and Shutdown; a writer stores what it loaded before
\* another writer's newer values, and this does not hold.
C40_HeartbeatCountersGrow ==
    [][/\ beat'.row.requests_processed >= beat.row.requests_processed
       /\ beat'.row.requests_failed >= beat.row.requests_failed]_vars

\* the row never shows more than the counters hold
RowBelowCounters ==
    /\ beat.row.requests_processed <= beat.processed
    /\ beat.row.requests_failed <= beat.failed

\* until Shutdown loads the counters the row does not decrease
GrowBeforeShutdown ==
    [][beat.shut.pc = "idle" /\ beat'.shut.pc = "idle" =>
          /\ beat'.row.requests_processed >= beat.row.requests_processed
          /\ beat'.row.requests_failed >= beat.row.requests_failed]_vars

====
